---- MODULE Spec2Model ----
(***************************************************************************)
(* libxml-ruby: the DTD handle adapter (ext/libxml/ruby_xml_dtd.c) and the *)
(* streaming writer adapter (ext/libxml/ruby_xml_writer.c), modelled as    *)
(* state machines over the native libxml2 objects they wrap and the Ruby   *)
(* garbage collector that reclaims the wrappers.                           *)
(***************************************************************************)
EXTENDS Integers, Sequences, FiniteSets, TLC

\* ------------------------------------------------------------------ bounds
MaxHandles == 2
MaxDocs == 1
MaxDtds == 2
\* The writer: open elements at most, bytes of output at most.
MaxDepth == 2
MaxOut == 3
\* The bytes of output a never-flushed session holds before a call.
MaxText == 6

\* The C null pointer (Data_Wrap_Struct(..., NULL), xdoc = NULL, ...).
NULL == 0

Handles == 1..MaxHandles
Docs == 1..MaxDocs
DtdIds == 1..MaxDtds

\* ------------------------------------------------------------ Ruby values
\* A Ruby VALUE: a tag, a payload and an encoding.  A string's payload is its
\* bytes, which may hold a zero byte anywhere, and enc the encoding it is
\* tagged with; a Document wrapper's payload is the native document it wraps.
Qnil == [t |-> "nil", v |-> <<>>, enc |-> "none"]
Qfalse == [t |-> "false", v |-> <<>>, enc |-> "none"]
Qtrue == [t |-> "true", v |-> <<>>, enc |-> "none"]
RInt(n) == [t |-> "int", v |-> <<n>>, enc |-> "none"]
RStrEnc(bytes, enc) == [t |-> "str", v |-> bytes, enc |-> enc]
RStr(bytes) == RStrEnc(bytes, "UTF-8")
RDoc(d) == [t |-> "doc", v |-> <<d>>, enc |-> "none"]

\* Byte strings the callers pass: "a", "b", "c", and "a\0b", "b\0", "c\0a"
\* (Ruby strings holding a zero byte).
StrA == <<97>>
StrANulB == <<97, 0, 98>>
StrB == <<98>>
StrBNul == <<98, 0>>
StrC == <<99>>
StrCNulA == <<99, 0, 97>>
\* The text "none" that libxml2's DTD parsers give the DTD they build.
StrNone == <<110, 111, 110, 101>>

\* A C string pointer: <<>> is NULL, <<s>> points at the bytes s.
CNull == <<>>
CPtr(s) == <<s>>

RECURSIVE UpToNul(_)
\* The bytes a C routine reads from a char*: everything before the first 0.
UpToNul(bytes) ==
  IF bytes = <<>> \/ Head(bytes) = 0 THEN <<>>
  ELSE <<Head(bytes)>> \o UpToNul(Tail(bytes))

\* StringValuePtr(v) cast to xmlChar*: the address of the Ruby string's
\* bytes.  Native code reads it as a C string, so it sees the bytes up to
\* the first zero byte.
StringValuePtr(v) == CPtr(UpToNul(v.v))

\* xmlStrdup and the copies xmlNewDtd / xmlCreateIntSubset make of their
\* const xmlChar* arguments: NULL stays NULL.
xmlStrdup(cstr) == cstr

\* rxml_new_cstr(xstr, NULL): a Ruby string with the C string's bytes.
rxml_new_cstr(cstr) == RStr(cstr[1])

\* Check_Type(v, T_STRING)
IsString(v) == v.t = "str"

\* RTEST
RTEST(v) == ~(v = Qnil \/ v = Qfalse)

\* ------------------------------------------------------------------ state
VARIABLES
  hdl,          \* DTD handles (RData): st, ptr (DATA_PTR), dfree, dmark, rooted, ctor
  xdtd,         \* native xmlDtd objects
  xdoc,         \* native xmlDoc objects and their Ruby wrappers
  last          \* the last operation run and what the caller saw of it

VARIABLES
  rwo,          \* the session record (rxml_writer_object) of the one writer session
  obj,          \* the Ruby object wrapping it: st, rooted
  heap,         \* native allocations made for the session and not yet released
  xw,           \* the native xmlTextWriter: open nodes and buffered output
  sink,         \* what has reached the output target (IO, file, xmlBuffer, document)
  wlast         \* the last writer operation run and what the caller saw of it

dtdVars == <<hdl, xdtd, xdoc, last>>
writerVars == <<rwo, obj, heap, xw, sink, wlast>>
vars == <<hdl, xdtd, xdoc, last, rwo, obj, heap, xw, sink, wlast>>

NoHandle ==
  [st |-> "none", ptr |-> NULL, dfree |-> "NULL", dmark |-> "NULL",
   rooted |-> FALSE, ctor |-> "none"]

NoDtd ==
  [st |-> "none", name |-> CNull, ExternalID |-> CNull, SystemID |-> CNull,
   doc |-> NULL, parent |-> NULL, type |-> "none", freedBy |-> <<>>]

LiveDoc ==
  [st |-> "live", rooted |-> TRUE, extSubset |-> NULL, intSubset |-> NULL]

NoOp ==
  [op |-> "none", h |-> NULL, res |-> "none", calls |-> <<>>,
   argv |-> <<>>, val |-> Qnil, err |-> "none", first |-> FALSE]

\* The session record before ALLOC.
NoRwo ==
  [st |-> "none", output |-> Qnil, encoding |-> "none", buffer |-> "NULL",
   writer |-> "NULL", output_type |-> "RXMLW_OUTPUT_NONE", closed |-> FALSE]

NoWriter ==
  [st |-> "none", stack |-> <<>>, pending |-> <<>>, indent |-> FALSE, ichar |-> <<>>, qchar |-> 0]

NoWriterOp ==
  [op |-> "none", ret |-> Qnil, err |-> "none", nret |-> 0, args |-> <<>>, cb |-> <<>>]

NoObj == [st |-> "none", rooted |-> FALSE]

\* No DTD handle, no native DTD, every document live and held by the caller;
\* no writer session.
Init ==
  /\ hdl = [h \in Handles |-> NoHandle]
  /\ xdtd = [i \in DtdIds |-> NoDtd]
  /\ xdoc = [d \in Docs |-> LiveDoc]
  /\ last = NoOp
  /\ rwo = NoRwo
  /\ obj = NoObj
  /\ heap = {}
  /\ xw = NoWriter
  /\ sink = <<>>
  /\ wlast = NoWriterOp

\* ------------------------------------------------- libxml2 DTD creation
FreeDtdIds == {i \in DtdIds : xdtd[i].st = "none"}
\* The address the next native DTD allocation returns.
NextDtd == CHOOSE i \in FreeDtdIds : \A j \in FreeDtdIds : i <= j

\* Whether the native call can succeed at all: the object pool is the bound
\* of the model, an exhausted pool is an allocation failure.
CanAllocate == FreeDtdIds # {}

\* xmlNewDtd(doc, name, ExternalID, SystemID): an external subset.  NULL when
\* the document already has one or on allocation failure; otherwise the new
\* DTD, with doc->extSubset = cur and cur->doc = doc when a document is given.
xmlNewDtd(d, name, pub, sys, ok) ==
  IF ~ok \/ (d # NULL /\ xdoc[d].extSubset # NULL) THEN NoDtd
  ELSE [st |-> "live", name |-> xmlStrdup(name), ExternalID |-> xmlStrdup(pub),
        SystemID |-> xmlStrdup(sys), doc |-> d, parent |-> NULL,
        type |-> "XML_DTD_NODE", freedBy |-> <<>>]

\* xmlCreateIntSubset(doc, name, ExternalID, SystemID): an internal subset.
\* NULL when the document already has one or on allocation failure; otherwise
\* the new DTD, linked as doc->intSubset with cur->parent = cur->doc = doc
\* when a document is given.
xmlCreateIntSubset(d, name, pub, sys, ok) ==
  IF ~ok \/ (d # NULL /\ xdoc[d].intSubset # NULL) THEN NoDtd
  ELSE [st |-> "live", name |-> xmlStrdup(name), ExternalID |-> xmlStrdup(pub),
        SystemID |-> xmlStrdup(sys), doc |-> d, parent |-> d,
        type |-> "XML_DTD_NODE", freedBy |-> <<>>]

\* xmlParseDTD(ExternalID, SystemID): loads and parses the external DTD.  The
\* parser builds it as xmlNewDtd(myDoc, "none", ExternalID, SystemID) and
\* detaches it from its scratch document before returning it.
xmlParseDTD(pub, sys, ok) ==
  IF ~ok THEN NoDtd
  ELSE [st |-> "live", name |-> CPtr(StrNone), ExternalID |-> xmlStrdup(pub),
        SystemID |-> xmlStrdup(sys), doc |-> NULL, parent |-> NULL,
        type |-> "XML_DTD_NODE", freedBy |-> <<>>]

\* xmlIOParseDTD(NULL, buffer, enc): parses the pushed text.  The parser
\* builds the DTD as xmlNewDtd(myDoc, "none", "none", "none") and detaches it
\* from its scratch document before returning it.
xmlIOParseDTD(text, ok) ==
  IF ~ok THEN NoDtd
  ELSE [st |-> "live", name |-> CPtr(StrNone), ExternalID |-> CPtr(StrNone),
        SystemID |-> CPtr(StrNone), doc |-> NULL, parent |-> NULL,
        type |-> "XML_DTD_NODE", freedBy |-> <<>>]

\* ------------------------------------------------- rxml_dtd_initialize
\* rb_obj_is_kind_of(doc, cXMLDocument)
IsDocument(v) == v.t = "doc"

\* The flag test with the Qfalse case forgotten.
SelectsExternal_nil_only(internal) == internal = Qnil

\* Line 184: the internal flag selects the external-subset creation.
SelectsExternal(internal) == internal = Qnil \/ internal = Qfalse

\* The 3-5 argument form with line 193 forgotten: the hook rxml_dtd_alloc set.
DfreeAfterSubset_kept == "rxml_dtd_free"

\* Line 193: the release hook the 3-5 argument form leaves on the handle.
DfreeAfterSubset == "NULL"

\* rb_scan_args: the i-th argument, Qnil when it is omitted.
Arg(argv, i) == IF i <= Len(argv) THEN argv[i] ELSE Qnil

\* What one run of the constructor body does: res is "ok" or the exception
\* raised, calls the native libxml2 calls made in order, self the handle
\* afterwards, made the native DTD created (NoDtd when none), slot the
\* document slot the native call filled, err the diagnostic xmlGetLastError()
\* hands to rxml_raise ("none" when nothing is raised through it).
Outcome(res, calls, self, made, slot, d, err) ==
  [res |-> res, calls |-> calls, self |-> self, made |-> made, slot |-> slot,
   doc |-> d, err |-> err]

Raised(self, kind) == Outcome(kind, <<>>, self, NoDtd, "none", NULL, "none")

\* rxml_raise(xmlGetLastError()): the exception raised, LibXML::XML::Error
\* carrying the diagnostic the failed native call fn left as the last error.
rxml_raise(fn) == [kind |-> "XmlError", err |-> fn]

\* rxml_raise(xmlGetLastError()) after the native call fn returned NULL.
NativeFailed(self, calls, fn) ==
  Outcome(rxml_raise(fn).kind, calls, self, NoDtd, "none", NULL, rxml_raise(fn).err)

\* case 3, 4, 5: create an external or an internal subset.
InitializeSubset(self, argv, ok) ==
  LET external == Arg(argv, 1)
      system == Arg(argv, 2)
      name == Arg(argv, 3)
      doc == Arg(argv, 4)
      internal == Arg(argv, 5)
  IN IF ~IsString(external) \/ ~IsString(system) THEN Raised(self, "TypeError")
     ELSE IF name # Qnil /\ ~IsString(name) THEN Raised(self, "TypeError")
     ELSE IF doc # Qnil /\ ~IsDocument(doc) THEN Raised(self, "TypeError")
     ELSE
       LET xpublic == StringValuePtr(external)
           xsystem == StringValuePtr(system)
           xname == IF name # Qnil THEN StringValuePtr(name) ELSE CNull
           d == IF doc # Qnil THEN doc.v[1] ELSE NULL
           ext == SelectsExternal(internal)
           fn == IF ext THEN "xmlNewDtd" ELSE "xmlCreateIntSubset"
           made == IF ext THEN xmlNewDtd(d, xname, xpublic, xsystem, ok)
                   ELSE xmlCreateIntSubset(d, xname, xpublic, xsystem, ok)
       IN IF made = NoDtd THEN NativeFailed(self, <<fn>>, fn)
          ELSE Outcome("ok", <<fn, "xmlSetTreeDoc">>,
                       [self EXCEPT !.dfree = DfreeAfterSubset, !.ptr = NextDtd,
                                    !.ctor = IF d # NULL THEN "subset_doc" ELSE "subset_nodoc"],
                       [made EXCEPT !.doc = d],
                       IF d = NULL THEN "none" ELSE IF ext THEN "ext" ELSE "int",
                       d, "none")

\* case 2: parse the external DTD named by the two identifiers.
InitializeIds(self, argv, ok) ==
  LET external == Arg(argv, 1)
      system == Arg(argv, 2)
  IN IF ~IsString(external) \/ ~IsString(system) THEN Raised(self, "TypeError")
     ELSE
       LET made == xmlParseDTD(StringValuePtr(external), StringValuePtr(system), ok)
       IN IF made = NoDtd THEN NativeFailed(self, <<"xmlParseDTD">>, "xmlParseDTD")
          ELSE Outcome("ok", <<"xmlParseDTD", "xmlSetTreeDoc">>,
                       [self EXCEPT !.ptr = NextDtd, !.ctor = "ids"],
                       [made EXCEPT !.doc = NULL], "none", NULL, "none")

\* case 1: parse the DTD given as text.
InitializeText(self, argv, ok) ==
  LET dtd_string == Arg(argv, 1)
  IN IF ~IsString(dtd_string) THEN Raised(self, "TypeError")
     ELSE
       LET new_string == xmlStrdup(StringValuePtr(dtd_string))
           made == xmlIOParseDTD(new_string, ok)
           pre == <<"xmlAllocParserInputBuffer", "xmlStrdup", "xmlParserInputBufferPush",
                    "xmlIOParseDTD">>
       IN IF made = NoDtd THEN NativeFailed(self, pre, "xmlIOParseDTD")
          ELSE Outcome("ok", pre \o <<"xmlFree">>,
                       [self EXCEPT !.ptr = NextDtd, !.ctor = "text"],
                       made, "none", NULL, "none")

\* The switch with the subset case reaching one argument too far.
rxml_dtd_initialize_wide(self, argv, ok) ==
  CASE Len(argv) \in 3..6 -> InitializeSubset(self, argv, ok)
    [] Len(argv) = 2 -> InitializeIds(self, argv, ok)
    [] Len(argv) = 1 -> InitializeText(self, argv, ok)
    [] OTHER -> Raised(self, "ArgumentError")

\* rxml_dtd_initialize(argc, argv, self): the switch on argc.
rxml_dtd_initialize(self, argv, ok) ==
  CASE Len(argv) \in 3..5 -> InitializeSubset(self, argv, ok)
    [] Len(argv) = 2 -> InitializeIds(self, argv, ok)
    [] Len(argv) = 1 -> InitializeText(self, argv, ok)
    [] OTHER -> Raised(self, "ArgumentError")

\* rxml_dtd_alloc wrapping with no release hook.
rxml_dtd_alloc_nofree ==
  [st |-> "live", ptr |-> NULL, dfree |-> "NULL", dmark |-> "rxml_dtd_mark",
   rooted |-> FALSE, ctor |-> "none"]

\* rxml_dtd_alloc(klass): Data_Wrap_Struct(klass, rxml_dtd_mark, rxml_dtd_free, NULL)
rxml_dtd_alloc ==
  [st |-> "live", ptr |-> NULL, dfree |-> "rxml_dtd_free", dmark |-> "rxml_dtd_mark",
   rooted |-> FALSE, ctor |-> "none"]

\* rxml_dtd_wrap(xdtd): Data_Wrap_Struct(cXMLDtd, NULL, NULL, xdtd)
rxml_dtd_wrap(i) ==
  [st |-> "live", ptr |-> i, dfree |-> "NULL", dmark |-> "NULL",
   rooted |-> TRUE, ctor |-> "wrap"]

\* ------------------------------------------------------ garbage collection
\* rxml_dtd_free with the parent test forgotten.
rxml_dtd_free_releases_doc_only(x) == x.doc = NULL

\* Line 35: the test rxml_dtd_free makes on the native object it is handed.
rxml_dtd_free_releases(x) == x.doc = NULL /\ x.parent = NULL

\* xmlFreeDtd / xmlFreeDoc on object i, recorded with who called it.
Freed(x, who) == [x EXCEPT !.st = "freed", !.freedBy = Append(@, who)]

\* rxml_dtd_free(xdtd), garbage the outcome of reading released memory: the
\* test of line 35 reads xdtd->doc and xdtd->parent, which for an object that
\* was already released are whatever the allocator left there.
rxml_dtd_free(x, garbage) ==
  IF x.st = "live"
  THEN IF rxml_dtd_free_releases(x) THEN Freed(x, "handle") ELSE x
  ELSE IF garbage THEN Freed(x, "handle") ELSE x

\* rxml_dtd_mark(xdtd): the document whose wrapper (doc->_private) is marked,
\* NULL when nothing is marked.
rxml_dtd_mark(p) ==
  IF p # NULL /\ xdtd[p].doc # NULL THEN xdtd[p].doc ELSE NULL

\* The mark phase: a handle the caller holds runs its mark hook.
Marks(h, d) ==
  /\ hdl[h].st = "live"
  /\ hdl[h].rooted
  /\ hdl[h].dmark = "rxml_dtd_mark"
  /\ rxml_dtd_mark(hdl[h].ptr) = d

\* A document wrapper is reachable when the caller holds it or a reachable
\* DTD handle marks it.
DocReachable(d) == xdoc[d].rooted \/ \E h \in Handles : Marks(h, d)

\* ---------------------------------------------------------------- actions
FreeHandles == {h \in Handles : hdl[h].st = "none"}
NextHandle == CHOOSE h \in FreeHandles : \A k \in FreeHandles : h <= k

\* Arguments callers pass to XML::Dtd.new / #initialize.  The three text
\* arguments come as one of three profiles: plain texts, texts with an
\* embedded zero byte, and plain texts with the name left nil.
StrProfiles ==
  {<<RStr(StrA), RStr(StrB), RStr(StrC)>>,
   <<RStr(StrANulB), RStr(StrBNul), RStr(StrCNulA)>>,
   <<RStr(StrA), RStr(StrB), Qnil>>}
LiveDocs == {d \in Docs : xdoc[d].st = "live" /\ xdoc[d].rooted}
DocVals == {Qnil, RInt(7)} \cup {RDoc(d) : d \in LiveDocs}
FlagVals == {Qnil, Qfalse, Qtrue, RInt(0)}
Argvs ==
  {<<>>, <<RStr(StrA), RStr(StrB), Qnil, Qnil, Qnil, Qnil>>}
  \cup {<<t>> : t \in {RStr(StrA), RInt(7)}}
  \cup {<<p[1], p[2]>> : p \in StrProfiles}
  \cup {<<RStr(StrA), RStr(StrB), RStr(StrC)>>}
  \cup {<<RStr(StrA), RStr(StrB), RStr(StrC), d>> : d \in DocVals \ {RInt(7)}}
  \cup {<<RStr(StrA), RStr(StrB), RStr(StrC), d, f>> : d \in DocVals, f \in FlagVals}
  \cup {<<p[1], p[2], p[3], d, Qnil>> : p \in StrProfiles, d \in DocVals \ {RInt(7)}}

\* Arguments of a run of #initialize on a handle the caller already holds:
\* one of each form.
InitArgvs ==
  {<<>>, <<RStr(StrA)>>, <<RStr(StrA), RStr(StrB), RStr(StrC)>>}
  \cup {<<RStr(StrA), RStr(StrB), RStr(StrC), RDoc(d)>> : d \in LiveDocs}

\* The state after one run of rxml_dtd_initialize on handle h, whose record
\* before the run was self; held says the caller holds h whatever the outcome.
RunInitialize(op, h, self, argv, ok, held) ==
  LET o == rxml_dtd_initialize(self, argv, ok)
      i == o.self.ptr
  IN /\ hdl' = [hdl EXCEPT ![h] = [o.self EXCEPT !.rooted = held \/ o.res = "ok"]]
     /\ xdtd' = IF o.res = "ok" THEN [xdtd EXCEPT ![i] = o.made] ELSE xdtd
     /\ xdoc' = CASE o.slot = "ext" -> [xdoc EXCEPT ![o.doc].extSubset = i]
                  [] o.slot = "int" -> [xdoc EXCEPT ![o.doc].intSubset = i]
                  [] OTHER -> xdoc
     /\ last' = [op |-> op, h |-> h, res |-> o.res, calls |-> o.calls,
                 argv |-> argv, val |-> Qnil, err |-> o.err, first |-> self.ptr = NULL]

\* XML::Dtd.new(*argv): rxml_dtd_alloc, then rxml_dtd_initialize on the new
\* handle; the caller gets the handle only when initialize returns.
DtdNew(argv, ok) ==
  /\ FreeHandles # {}
  /\ ok => CanAllocate
  /\ RunInitialize("new", NextHandle, rxml_dtd_alloc, argv, ok, FALSE)
  /\ UNCHANGED writerVars

\* XML::Dtd.allocate: rxml_dtd_alloc alone, the handle goes to the caller.
DtdAllocate ==
  /\ FreeHandles # {}
  /\ hdl' = [hdl EXCEPT ![NextHandle] = [rxml_dtd_alloc EXCEPT !.rooted = TRUE]]
  /\ last' = NoOp
  /\ UNCHANGED <<xdtd, xdoc, rwo, obj, heap, xw, sink, wlast>>

\* dtd.send(:initialize, *argv): rxml_dtd_initialize on a handle the caller
\* holds, whether or not it ran before.
DtdInitialize(h, argv, ok) ==
  /\ hdl[h].st = "live"
  /\ hdl[h].rooted
  /\ ok => CanAllocate
  /\ RunInitialize("initialize", h, hdl[h], argv, ok, TRUE)
  /\ UNCHANGED writerVars

\* rxml_dtd_wrap(xdtd) for a DTD reached through a document the caller holds.
DtdWrap(i) ==
  /\ FreeHandles # {}
  /\ xdtd[i].st = "live"
  /\ xdtd[i].doc # NULL
  /\ xdoc[xdtd[i].doc].st = "live"
  /\ xdoc[xdtd[i].doc].rooted
  /\ hdl' = [hdl EXCEPT ![NextHandle] = rxml_dtd_wrap(i)]
  /\ last' = NoOp
  /\ UNCHANGED <<xdtd, xdoc, rwo, obj, heap, xw, sink, wlast>>

\* The caller drops its last reference to handle h.
DropHandle(h) ==
  /\ hdl[h].st = "live"
  /\ hdl[h].rooted
  /\ hdl' = [hdl EXCEPT ![h].rooted = FALSE]
  /\ last' = NoOp
  /\ UNCHANGED <<xdtd, xdoc, rwo, obj, heap, xw, sink, wlast>>

\* The collector sweeps handle h: RData's dfree runs on DATA_PTR when both
\* are set.
CollectHandle(h, garbage) ==
  /\ hdl[h].st = "live"
  /\ ~hdl[h].rooted
  /\ hdl' = [hdl EXCEPT ![h].st = "collected"]
  /\ xdtd' = IF hdl[h].dfree = "rxml_dtd_free" /\ hdl[h].ptr # NULL
             THEN [xdtd EXCEPT ![hdl[h].ptr] = rxml_dtd_free(@, garbage)]
             ELSE xdtd
  /\ last' = NoOp
  /\ UNCHANGED <<xdoc, rwo, obj, heap, xw, sink, wlast>>

\* The caller drops its last reference to document d.
DropDoc(d) ==
  /\ xdoc[d].st = "live"
  /\ xdoc[d].rooted
  /\ xdoc' = [xdoc EXCEPT ![d].rooted = FALSE]
  /\ last' = NoOp
  /\ UNCHANGED <<hdl, xdtd, rwo, obj, heap, xw, sink, wlast>>

\* The collector sweeps the wrapper of document d: the document adapter's
\* release hook runs xmlFreeDoc, which releases both subsets with the tree.
CollectDoc(d) ==
  /\ xdoc[d].st = "live"
  /\ ~DocReachable(d)
  /\ xdoc' = [xdoc EXCEPT ![d].st = "freed"]
  /\ xdtd' = [i \in DtdIds |->
               IF i \in {xdoc[d].extSubset, xdoc[d].intSubset} /\ i # NULL
               THEN Freed(xdtd[i], "doc") ELSE xdtd[i]]
  /\ last' = NoOp
  /\ UNCHANGED <<hdl, rwo, obj, heap, xw, sink, wlast>>

\* --------------------------------------------------------------- accessors
\* rxml_dtd_name_get / rxml_dtd_external_id_get / rxml_dtd_uri_get on the
\* native object x: Qnil for a NULL field, else the field as a Ruby string.
rxml_dtd_name_get(x) == IF x.name = CNull THEN Qnil ELSE rxml_new_cstr(x.name)
rxml_dtd_external_id_get(x) ==
  IF x.ExternalID = CNull THEN Qnil ELSE rxml_new_cstr(x.ExternalID)
rxml_dtd_uri_get(x) == IF x.SystemID = CNull THEN Qnil ELSE rxml_new_cstr(x.SystemID)
\* rxml_dtd_type: INT2NUM(xdtd->type)
XML_DTD_NODE == 14
rxml_dtd_type(x) == RInt(IF x.type = "XML_DTD_NODE" THEN XML_DTD_NODE ELSE 0)

\* The methods rxml_init_dtd defines on the class; system_id is an alias of
\* uri and runs the same function.
Accessors == {"name", "external_id", "uri", "system_id", "node_type"}
Accessor(m, x) ==
  CASE m = "name" -> rxml_dtd_name_get(x)
    [] m = "external_id" -> rxml_dtd_external_id_get(x)
    [] m \in {"uri", "system_id"} -> rxml_dtd_uri_get(x)
    [] m = "node_type" -> rxml_dtd_type(x)

\* What a read of xdtd->field gives when Data_Get_Struct handed out NULL: the
\* behaviour is undefined; the process is killed on the access, or the read
\* yields whatever the build makes of it.
NullReadOutcomes == {"SIGSEGV", "undefined"}

\* dtd.name, dtd.external_id, dtd.uri, dtd.system_id, dtd.node_type on a
\* handle the caller holds: Data_Get_Struct hands out DATA_PTR as it is and
\* the accessor reads through it.  The pointer is either NULL or that of a
\* live native object.
DtdGet(h, m) ==
  /\ hdl[h].st = "live"
  /\ hdl[h].rooted
  /\ IF hdl[h].ptr = NULL
     THEN \E out \in NullReadOutcomes : last' = [NoOp EXCEPT !.op = m, !.h = h, !.res = out]
     ELSE /\ xdtd[hdl[h].ptr].st = "live"
          /\ last' = [NoOp EXCEPT !.op = m, !.h = h, !.res = "ok",
                                  !.val = Accessor(m, xdtd[hdl[h].ptr])]
  /\ UNCHANGED <<hdl, xdtd, xdoc, rwo, obj, heap, xw, sink, wlast>>

DtdNext ==
  \/ \E argv \in Argvs, ok \in BOOLEAN : DtdNew(argv, ok)
  \/ DtdAllocate
  \/ \E h \in Handles, argv \in InitArgvs, ok \in BOOLEAN : DtdInitialize(h, argv, ok)
  \/ \E i \in DtdIds : DtdWrap(i)
  \/ \E h \in Handles, m \in Accessors : DtdGet(h, m)
  \/ \E h \in Handles : DropHandle(h)
  \/ \E h \in Handles, garbage \in BOOLEAN : CollectHandle(h, garbage)
  \/ \E d \in Docs : DropDoc(d)
  \/ \E d \in Docs : CollectDoc(d)

SpecDtd == Init /\ [][DtdNext]_vars

\* ------------------------------------------- rxml_dtd_free on any native DTD
\* rxml_dtd_free is handed whatever native DTD the handle holds.  This
\* specification starts from one handle, as rxml_dtd_alloc and a 1- or
\* 2-argument run of the constructor leave it, around a native DTD whose
\* links and texts are drawn from every combination, and then lets the
\* caller drop the handle and the collector sweep it.
CTexts == {CNull, CPtr(StrNone), CPtr(StrC)}
ReleaseInit ==
  /\ \E c \in {"text", "ids"} :
       hdl = [h \in Handles |->
               IF h = 1 THEN [rxml_dtd_alloc EXCEPT !.ptr = 1, !.rooted = TRUE, !.ctor = c]
               ELSE NoHandle]
  /\ \E n \in CTexts, e \in CTexts, s \in CTexts, d \in {NULL} \cup Docs, p \in {NULL} \cup Docs :
       xdtd = [i \in DtdIds |->
                IF i = 1
                THEN [st |-> "live", name |-> n, ExternalID |-> e, SystemID |-> s,
                      doc |-> d, parent |-> p, type |-> "XML_DTD_NODE", freedBy |-> <<>>]
                ELSE NoDtd]
  /\ xdoc = [d \in Docs |-> LiveDoc]
  /\ last = NoOp
  /\ rwo = NoRwo
  /\ obj = NoObj
  /\ heap = {}
  /\ xw = NoWriter
  /\ sink = <<>>
  /\ wlast = NoWriterOp

ReleaseNext ==
  \/ \E h \in Handles : DropHandle(h)
  \/ \E h \in Handles, garbage \in BOOLEAN : CollectHandle(h, garbage)

SpecRelease == ReleaseInit /\ [][ReleaseNext]_vars

\* ======================================================== the writer adapter
\* An IO object whose encoding rb_enc_get reports as enc ("none": no encoding
\* to be had, rb_enc_get returns NULL).
RIo(enc) == [t |-> "io", v |-> <<>>, enc |-> enc]
IoVals == {RIo("none"), RIo("ISO-8859-1")}

\* rxml_document_wrap(doc): the Document wrapper of the document the native
\* writer builds.
WriterDoc == RDoc(1)

\* An exception leaving the method.
RaiseOf(kind) == [t |-> "raise", v |-> <<>>, enc |-> kind]

\* xmlNewTextWriter* on success.
\* A new native writer: nothing open, indentation off, the indentation string a
\* space, the quote character ".
LiveWriter ==
  [st |-> "live", stack |-> <<>>, pending |-> <<>>, indent |-> FALSE, ichar |-> <<32>>,
   qchar |-> 34]

\* What a writer constructor leaves behind: the session record it filled, the
\* native allocations standing, and either the session handed to rxml_writer_wrap
\* (raised = "none") or the exception raised, with the diagnostic
\* xmlGetLastError() gave rxml_raise.
Built(r, allocs, calls) ==
  [rwo |-> r, heap |-> allocs, raised |-> "none", err |-> "none", calls |-> calls]
Failed(r, allocs, calls, kind, fn) ==
  [rwo |-> r, heap |-> allocs, raised |-> kind, err |-> fn, calls |-> calls]
FailedNative(r, allocs, calls, fn) ==
  Failed(r, allocs, calls, rxml_raise(fn).kind, rxml_raise(fn).err)

\* rxml_writer_io(klass, io)
rxml_writer_io(io, okOut, okWriter) ==
  LET r == [st |-> "live", output |-> io, buffer |-> "NULL", closed |-> FALSE,
            encoding |-> IF io.enc = "none" THEN "UTF-8" ELSE io.enc,
            output_type |-> "RXMLW_OUTPUT_IO", writer |-> "NULL"]
  IN IF ~okOut
     THEN FailedNative(r, {"rwo"}, <<"xmlOutputBufferCreateIO">>, "xmlOutputBufferCreateIO")
     ELSE IF ~okWriter
     THEN FailedNative(r, {"rwo", "out"}, <<"xmlOutputBufferCreateIO", "xmlNewTextWriter">>, "xmlNewTextWriter")
     ELSE Built([r EXCEPT !.writer = "writer"], {"rwo", "out", "writer"},
                <<"xmlOutputBufferCreateIO", "xmlNewTextWriter">>)

\* rxml_writer_file(klass, filename).  StringValueCStr raises ArgumentError
\* on a string that holds a zero byte, TypeError on what is no string.
rxml_writer_file(filename, okWriter) ==
  LET r == [st |-> "live", output |-> Qnil, buffer |-> "NULL", closed |-> FALSE,
            encoding |-> "UTF-8", output_type |-> "RXMLW_OUTPUT_NONE", writer |-> "NULL"]
  IN IF ~IsString(filename) THEN Failed(r, {"rwo"}, <<>>, "TypeError", "none")
     ELSE IF UpToNul(filename.v) # filename.v THEN Failed(r, {"rwo"}, <<>>, "ArgumentError", "none")
     ELSE IF ~okWriter
     THEN FailedNative(r, {"rwo"}, <<"xmlNewTextWriterFilename">>, "xmlNewTextWriterFilename")
     ELSE Built([r EXCEPT !.writer = "writer"], {"rwo", "out", "writer"},
                <<"xmlNewTextWriterFilename">>)

\* rxml_writer_string with the test of xmlNewTextWriterMemory's result
\* forgotten.
rxml_writer_string_unchecked(okBuffer, okWriter) ==
  LET r == [st |-> "live", output |-> Qnil, buffer |-> "NULL", closed |-> FALSE,
            encoding |-> "UTF-8", output_type |-> "RXMLW_OUTPUT_STRING", writer |-> "NULL"]
  IN IF ~okBuffer
     THEN FailedNative(r, {"rwo"}, <<"xmlBufferCreate">>, "xmlBufferCreate")
     ELSE Built([r EXCEPT !.buffer = "buffer", !.writer = IF okWriter THEN "writer" ELSE "NULL"],
                IF okWriter THEN {"rwo", "buffer", "out", "writer"} ELSE {"rwo", "buffer"},
                <<"xmlBufferCreate", "xmlNewTextWriterMemory">>)

\* rxml_writer_string(klass)
rxml_writer_string(okBuffer, okWriter) ==
  LET r == [st |-> "live", output |-> Qnil, buffer |-> "NULL", closed |-> FALSE,
            encoding |-> "UTF-8", output_type |-> "RXMLW_OUTPUT_STRING", writer |-> "NULL"]
  IN IF ~okBuffer
     THEN FailedNative(r, {"rwo"}, <<"xmlBufferCreate">>, "xmlBufferCreate")
     ELSE IF ~okWriter
     THEN FailedNative([r EXCEPT !.buffer = "buffer"], {"rwo"},
                 <<"xmlBufferCreate", "xmlNewTextWriterMemory", "xmlBufferFree">>, "xmlNewTextWriterMemory")
     ELSE Built([r EXCEPT !.buffer = "buffer", !.writer = "writer"],
                {"rwo", "buffer", "out", "writer"},
                <<"xmlBufferCreate", "xmlNewTextWriterMemory">>)

\* rxml_writer_doc(klass)
rxml_writer_doc(okWriter) ==
  LET r == [st |-> "live", output |-> Qnil, buffer |-> "NULL", closed |-> FALSE,
            encoding |-> "UTF-8", output_type |-> "RXMLW_OUTPUT_DOC", writer |-> "NULL"]
  IN IF ~okWriter
     THEN FailedNative(r, {"rwo"}, <<"xmlNewTextWriterDoc">>, "xmlNewTextWriterDoc")
     ELSE Built([r EXCEPT !.writer = "writer", !.output = WriterDoc],
                {"rwo", "doc", "out", "writer"}, <<"xmlNewTextWriterDoc">>)

\* The constructor returns rxml_writer_wrap(rwo) or raises; nret is -1 when a
\* native creation call of this run was made to return NULL, 0 otherwise.
Construct(op, b, allOk) ==
  /\ rwo' = b.rwo
  /\ heap' = b.heap
  /\ obj' = IF b.raised = "none" THEN [st |-> "live", rooted |-> TRUE] ELSE obj
  /\ xw' = IF b.rwo.writer = "writer" THEN LiveWriter ELSE xw
  /\ sink' = <<>>
  /\ wlast' = [op |-> op, ret |-> IF b.raised = "none" THEN Qtrue ELSE RaiseOf(b.raised),
               err |-> b.err, nret |-> IF allOk THEN 0 ELSE -1, args |-> b.calls,
               cb |-> <<>>]
  /\ UNCHANGED dtdVars

WriterIo(io, okOut, okWriter) ==
  /\ rwo.st = "none"
  /\ Construct("io", rxml_writer_io(io, okOut, okWriter), okOut /\ okWriter)

WriterFile(filename, okWriter) ==
  /\ rwo.st = "none"
  /\ Construct("file", rxml_writer_file(filename, okWriter), okWriter)

WriterString(okBuffer, okWriter) ==
  /\ rwo.st = "none"
  /\ Construct("string", rxml_writer_string(okBuffer, okWriter), okBuffer /\ okWriter)

WriterDocument(okWriter) ==
  /\ rwo.st = "none"
  /\ Construct("document", rxml_writer_doc(okWriter), okWriter)

WriterCtors == {"io", "file", "string", "document"}

WriterCtorNext ==
  \/ \E io \in IoVals, okOut \in BOOLEAN, okWriter \in BOOLEAN : WriterIo(io, okOut, okWriter)
  \/ \E f \in {RStr(StrA), RStr(StrANulB)}, okWriter \in BOOLEAN : WriterFile(f, okWriter)
  \/ \E okBuffer \in BOOLEAN, okWriter \in BOOLEAN : WriterString(okBuffer, okWriter)
  \/ \E okWriter \in BOOLEAN : WriterDocument(okWriter)

\* --------------------------------------------------- the native text writer
\* Output is bytes: "<" 60, ">" 62, "/" 47, "?" 63, "&" 38.
Lt == <<60>>
Gt == <<62>>
SlashGt == <<47, 62>>
LtSlash == <<60, 47>>
\* " ", "=", "<!--" and "-->"; the quote character is the writer's.
Space == <<32>>
Equals == <<61>>
Quote(w) == <<w.qchar>>
CommentStart == <<60, 33, 45, 45>>
CommentEnd == <<45, 45, 62>>

RECURSIVE xmlEncodeSpecialChars(_)
\* The escaping xmlTextWriterWriteString applies: "<" to "&lt;", ">" to
\* "&gt;", "&" to "&amp;".
xmlEncodeSpecialChars(bytes) ==
  IF bytes = <<>> THEN <<>>
  ELSE (CASE Head(bytes) = 60 -> <<38, 108, 116, 59>>
          [] Head(bytes) = 62 -> <<38, 103, 116, 59>>
          [] Head(bytes) = 38 -> <<38, 97, 109, 112, 59>>
          [] OTHER -> <<Head(bytes)>>) \o xmlEncodeSpecialChars(Tail(bytes))

\* A native call's answer: the int it returns (-1 on error, else the bytes
\* written) and the writer afterwards.
Native(ret, w) == [ret |-> ret, w |-> w]
NativeError(w) == Native(-1, w)
Emit(w, stack, bytes) ==
  Native(Len(bytes), [w EXCEPT !.stack = stack, !.pending = @ \o bytes])

Top(w) == w.stack[Len(w.stack)]
\* The state of the innermost open node: NAME inside a start tag, ATTRIBUTE
\* inside an attribute value, TEXT inside an element, COMMENT inside a comment,
\* NONE with nothing open.
TopState(w) == IF w.stack = <<>> THEN "NONE" ELSE Top(w).state
\* The open start tag is closed with ">" before anything is written inside.
CloseStartTag(w) == IF TopState(w) = "NAME" THEN Gt ELSE <<>>
InsideTop(w) ==
  IF TopState(w) = "NAME" THEN [w.stack EXCEPT ![Len(w.stack)].state = "TEXT"] ELSE w.stack
Pop(stack) == SubSeq(stack, 1, Len(stack) - 1)

\* An attribute value left open is ended with its quote before the start tag
\* goes on or ends.
EndOpenAttribute(w) ==
  IF TopState(w) = "ATTRIBUTE"
  THEN [w EXCEPT !.stack[Len(w.stack)].state = "NAME", !.pending = @ \o Quote(w)]
  ELSE w

\* xmlTextWriterStartElement(writer, name)
xmlTextWriterStartElement(w, name) ==
  IF name = CNull \/ name[1] = <<>> THEN NativeError(w)
  ELSE LET v == EndOpenAttribute(w)
       IN Emit(v, Append(InsideTop(v), [name |-> name[1], state |-> "NAME"]),
               CloseStartTag(v) \o Lt \o name[1])

\* The bytes that close the innermost open node: "/>" for an element with
\* nothing inside (after the quote of an attribute left open), "</name>" for
\* one with content, "-->" for a comment.
EndTag(w, node) ==
  CASE node.state = "NAME" -> SlashGt
    [] node.state = "ATTRIBUTE" -> Quote(w) \o SlashGt
    [] node.state = "COMMENT" -> CommentEnd
    [] OTHER -> LtSlash \o node.name \o Gt

\* xmlTextWriterEndElement(writer): an error with nothing open or inside a
\* comment.
xmlTextWriterEndElement(w) ==
  IF TopState(w) \in {"NONE", "COMMENT"} THEN NativeError(w)
  ELSE Emit(w, Pop(w.stack), EndTag(w, Top(w)))

\* xmlTextWriterFullEndElement(writer): always "</name>".
xmlTextWriterFullEndElement(w) ==
  IF TopState(w) \in {"NONE", "COMMENT"} THEN NativeError(w)
  ELSE LET v == EndOpenAttribute(w)
       IN Emit(v, Pop(v.stack), CloseStartTag(v) \o LtSlash \o Top(v).name \o Gt)

\* xmlTextWriterWriteRaw(writer, content)
xmlTextWriterWriteRaw(w, content) ==
  IF content = CNull THEN NativeError(w)
  ELSE Emit(w, InsideTop(w), CloseStartTag(w) \o content[1])

\* xmlTextWriterWriteString(writer, content): the content is escaped inside an
\* element or an attribute value and written as it is elsewhere.
xmlTextWriterWriteString(w, content) ==
  IF content = CNull THEN NativeError(w)
  ELSE IF TopState(w) \in {"NAME", "TEXT", "ATTRIBUTE"}
       THEN xmlTextWriterWriteRaw(w, CPtr(xmlEncodeSpecialChars(content[1])))
       ELSE xmlTextWriterWriteRaw(w, content)

\* xmlTextWriterStartAttribute(writer, name): only inside a start tag; an
\* attribute left open is ended first.
xmlTextWriterStartAttribute(w, name) ==
  IF name = CNull \/ name[1] = <<>> THEN NativeError(w)
  ELSE IF TopState(w) \notin {"NAME", "ATTRIBUTE"} THEN NativeError(w)
  ELSE LET v == EndOpenAttribute(w)
       IN Emit(v, [v.stack EXCEPT ![Len(v.stack)].state = "ATTRIBUTE"],
               Space \o name[1] \o Equals \o Quote(v))

\* xmlTextWriterEndAttribute(writer)
xmlTextWriterEndAttribute(w) ==
  IF TopState(w) # "ATTRIBUTE" THEN NativeError(w)
  ELSE Emit(w, [w.stack EXCEPT ![Len(w.stack)].state = "NAME"], Quote(w))

\* xmlTextWriterWriteAttribute(writer, name, content): start, string, end, each
\* step's error ending the call; the string step is made with whatever content
\* is, NULL included.
xmlTextWriterWriteAttribute(w, name, content) ==
  LET a == xmlTextWriterStartAttribute(w, name)
      b == xmlTextWriterWriteString(a.w, content)
      c == xmlTextWriterEndAttribute(b.w)
  IN IF a.ret = -1 THEN a
     ELSE IF b.ret = -1 THEN b
     ELSE IF c.ret = -1 THEN c
     ELSE Native(a.ret + b.ret + c.ret, c.w)

\* xmlTextWriterStartComment(writer): an error inside an attribute value or a
\* comment.
xmlTextWriterStartComment(w) ==
  IF TopState(w) \in {"ATTRIBUTE", "COMMENT"} THEN NativeError(w)
  ELSE Emit(w, Append(InsideTop(w), [name |-> <<>>, state |-> "COMMENT"]),
            CloseStartTag(w) \o CommentStart)

\* xmlTextWriterEndComment(writer)
xmlTextWriterEndComment(w) ==
  IF TopState(w) # "COMMENT" THEN NativeError(w)
  ELSE Emit(w, Pop(w.stack), CommentEnd)

\* xmlTextWriterWriteComment(writer, content): start, string, end, the string
\* step made with whatever content is, NULL included.
xmlTextWriterWriteComment(w, content) ==
  LET a == xmlTextWriterStartComment(w)
      b == xmlTextWriterWriteString(a.w, content)
      c == xmlTextWriterEndComment(b.w)
  IN IF a.ret = -1 THEN a
     ELSE IF b.ret = -1 THEN b
     ELSE IF c.ret = -1 THEN c
     ELSE Native(a.ret + b.ret + c.ret, c.w)

\* xmlTextWriterWriteElement(writer, name, content): start, string, end, each
\* step's error ending the call.
xmlTextWriterWriteElement(w, name, content) ==
  LET a == xmlTextWriterStartElement(w, name)
      b == IF content = CNull THEN Native(0, a.w) ELSE xmlTextWriterWriteString(a.w, content)
      c == xmlTextWriterEndElement(b.w)
  IN IF a.ret = -1 THEN a
     ELSE IF b.ret = -1 THEN b
     ELSE IF c.ret = -1 THEN c
     ELSE Native(a.ret + b.ret + c.ret, c.w)

\* The XML declaration, abbreviated to "?", one byte for the encoding named
\* (none when NULL) and one for standalone (none when NULL).
EncodingByte(xencoding) ==
  CASE xencoding = "NULL" -> <<>>
    [] xencoding = "UTF-8" -> <<85>>
    [] OTHER -> <<76>>
StandaloneByte(xstandalone) ==
  CASE xstandalone = "NULL" -> <<>>
    [] xstandalone = "yes" -> <<121>>
    [] OTHER -> <<110>>

\* xmlTextWriterStartDocument(writer, NULL, encoding, standalone): an error
\* once a node is open.
xmlTextWriterStartDocument(w, xencoding, xstandalone) ==
  IF w.stack # <<>> THEN NativeError(w)
  ELSE Emit(w, w.stack, <<63>> \o EncodingByte(xencoding) \o StandaloneByte(xstandalone))

RECURSIVE EndAll(_, _)
\* The end tags of every open node, innermost first.
EndAll(w, stack) ==
  IF stack = <<>> THEN <<>> ELSE EndTag(w, stack[Len(stack)]) \o EndAll(w, Pop(stack))

\* xmlTextWriterEndDocument(writer): closes what is open and, with indentation
\* off, ends the output with a line feed; the flush it ends with is applied by
\* rxml_writer_end_document below.
xmlTextWriterEndDocument(w) ==
  Emit(w, <<>>, EndAll(w, w.stack) \o (IF w.indent THEN <<>> ELSE <<10>>))

\* xmlTextWriterSetIndent(writer, indent); the line breaks and indentation
\* strings an indenting writer puts between elements are left out of the output.
xmlTextWriterSetIndent(w, indent) == Native(0, [w EXCEPT !.indent = indent])

\* xmlTextWriterSetIndentString(writer, str)
xmlTextWriterSetIndentString(w, str) ==
  IF str = CNull THEN NativeError(w) ELSE Native(0, [w EXCEPT !.ichar = str[1]])

\* xmlTextWriterSetQuoteChar(writer, quotechar): only ' and " are accepted.
xmlTextWriterSetQuoteChar(w, quotechar) ==
  IF quotechar \notin {39, 34} THEN NativeError(w)
  ELSE Native(0, [w EXCEPT !.qchar = quotechar])

\* rxml_writer_write_callback with the closed flag never looked at.
rxml_writer_write_callback_unchecked(r, bytes) ==
  [ret |-> Len(bytes), invoked |-> TRUE, written |-> bytes, to |-> r.output]

\* rxml_writer_write_callback(context, buffer, len): the count it returns,
\* whether rxml_write_callback (the IO object's write) is invoked, and then the
\* bytes it is handed and the object it is invoked on.
rxml_writer_write_callback(r, bytes) ==
  IF r.closed THEN [ret |-> 0, invoked |-> FALSE, written |-> <<>>, to |-> Qnil]
  ELSE [ret |-> Len(bytes), invoked |-> TRUE, written |-> bytes, to |-> r.output]

\* The runs of rxml_writer_write_callback a flush of the native output buffer
\* makes: one for an IO session, with the buffered bytes, none for the other
\* sinks.  Each run is recorded with the closed flag and the bytes it was given.
Callbacks(r, bytes) ==
  IF r.output_type = "RXMLW_OUTPUT_IO"
  THEN LET c == rxml_writer_write_callback(r, bytes)
       IN <<[closed |-> r.closed, bytes |-> bytes, ret |-> c.ret, invoked |-> c.invoked,
             written |-> c.written, to |-> c.to]>>
  ELSE <<>>

\* What a flush of the native output buffer delivers to the output target:
\* through rxml_writer_write_callback for an IO session, through libxml2's own
\* file, xmlBuffer or document writer otherwise.
Delivered(r, bytes) ==
  IF r.output_type = "RXMLW_OUTPUT_IO" THEN Callbacks(r, bytes)[1].written
  ELSE bytes

\* xmlTextWriterFlush(writer): the count of bytes handed to the output target.
xmlTextWriterFlush(w) == Native(Len(w.pending), [w EXCEPT !.pending = <<>>])

\* ------------------------------------------------------- text marshalling
RECURSIVE Utf8ToLatin1(_)
\* Transcoding of UTF-8 bytes to ISO-8859-1: a two-byte sequence becomes the
\* one byte of its code point, a 7-bit byte stays.
Utf8ToLatin1(bytes) ==
  IF bytes = <<>> THEN <<>>
  ELSE IF Head(bytes) = 195 /\ Len(bytes) >= 2
  THEN <<bytes[2] + 64>> \o Utf8ToLatin1(Tail(Tail(bytes)))
  ELSE IF Head(bytes) = 194 /\ Len(bytes) >= 2
  THEN <<bytes[2]>> \o Utf8ToLatin1(Tail(Tail(bytes)))
  ELSE <<Head(bytes)>> \o Utf8ToLatin1(Tail(bytes))

RECURSIVE Latin1ToUtf8(_)
\* Transcoding of ISO-8859-1 bytes to UTF-8.
Latin1ToUtf8(bytes) ==
  IF bytes = <<>> THEN <<>>
  ELSE (IF Head(bytes) >= 192 THEN <<195, Head(bytes) - 64>>
        ELSE IF Head(bytes) >= 128 THEN <<194, Head(bytes)>>
        ELSE <<Head(bytes)>>) \o Latin1ToUtf8(Tail(bytes))

\* rb_str_conv_enc(str, from, to): the string itself when the encodings are
\* the same, the transcoded string otherwise.
rb_str_conv_enc(str, from, to) ==
  IF from = to THEN str
  ELSE IF from = "UTF-8" /\ to = "ISO-8859-1" THEN RStrEnc(Utf8ToLatin1(str.v), to)
  ELSE IF from = "ISO-8859-1" /\ to = "UTF-8" THEN RStrEnc(Latin1ToUtf8(str.v), to)
  ELSE str

\* StringValueCStr(v): ArgumentError on a string that holds a zero byte.
HasNul(v) == UpToNul(v.v) # v.v

RECURSIVE encodeStrings_raw(_, _)
\* encodeStrings with rb_str_conv_enc left out: the strings go to the native
\* layer in the encoding they came in.
encodeStrings_raw(encoding, strings) ==
  IF strings = <<>> THEN [raised |-> "none", out |-> <<>>]
  ELSE LET string == Head(strings)
           rest == encodeStrings_raw(encoding, Tail(strings))
       IN IF string = Qnil
          THEN [raised |-> rest.raised, out |-> <<CNull>> \o rest.out]
          ELSE IF HasNul(string) THEN [raised |-> "ArgumentError", out |-> <<>>]
          ELSE [raised |-> rest.raised, out |-> <<CPtr(string.v)>> \o rest.out]

RECURSIVE encodeStrings(_, _)
\* encodeStrings(encoding, count, strings, encoded_strings): NULL for nil, the
\* transcoded C string otherwise; raised names the exception StringValueCStr
\* raised on the way ("none" when none).
encodeStrings(encoding, strings) ==
  IF strings = <<>> THEN [raised |-> "none", out |-> <<>>]
  ELSE LET string == Head(strings)
           rest == encodeStrings(encoding, Tail(strings))
           encoded == rb_str_conv_enc(string, string.enc, encoding)
       IN IF string = Qnil
          THEN [raised |-> rest.raised, out |-> <<CNull>> \o rest.out]
          ELSE IF HasNul(encoded) THEN [raised |-> "ArgumentError", out |-> <<>>]
          ELSE [raised |-> rest.raised, out |-> <<CPtr(encoded.v)>> \o rest.out]

\* ------------------------------------------------------ session operations
\* What one method call on the session does: the value returned (or the
\* exception raised), the native call's int, the C strings handed to the native
\* layer, and the session record, native writer and output target afterwards.
Done(ret, nret, args, r, w, snk) ==
  [ret |-> ret, err |-> "none", nret |-> nret, args |-> args, rwo |-> r, w |-> w, sink |-> snk,
   cb |-> <<>>]
Threw(kind, fn, nret, r, w, snk) ==
  [ret |-> RaiseOf(kind), err |-> fn, nret |-> nret, args |-> <<>>, rwo |-> r, w |-> w,
   sink |-> snk, cb |-> <<>>]

\* The outcome o of a call whose flush handed bytes to the output callback.
WithCallbacks(o, r, bytes) == [o EXCEPT !.cb = Callbacks(r, bytes)]

\* A native int taken for a count: nothing written read as failure.
BoolOf_count(nret) == IF nret <= 0 THEN Qfalse ELSE Qtrue

\* (result == -1 ? Qfalse : Qtrue)
BoolOf(nret) == IF nret = -1 THEN Qfalse ELSE Qtrue

\* The native functions reached through the two invoke helpers; ok FALSE is
\* the native layer reporting an internal error (-1) and writing nothing.
VoidFns ==
  {"xmlTextWriterEndElement", "xmlTextWriterFullEndElement", "xmlTextWriterEndDocument",
   "xmlTextWriterEndAttribute", "xmlTextWriterStartComment", "xmlTextWriterEndComment"}
SingleFns ==
  {"xmlTextWriterStartElement", "xmlTextWriterWriteString", "xmlTextWriterWriteRaw",
   "xmlTextWriterStartAttribute", "xmlTextWriterWriteComment", "xmlTextWriterSetIndentString"}
CallVoid(fn, w, ok) ==
  IF ~ok THEN NativeError(w)
  ELSE CASE fn = "xmlTextWriterEndElement" -> xmlTextWriterEndElement(w)
         [] fn = "xmlTextWriterFullEndElement" -> xmlTextWriterFullEndElement(w)
         [] fn = "xmlTextWriterEndDocument" -> xmlTextWriterEndDocument(w)
         [] fn = "xmlTextWriterEndAttribute" -> xmlTextWriterEndAttribute(w)
         [] fn = "xmlTextWriterStartComment" -> xmlTextWriterStartComment(w)
         [] fn = "xmlTextWriterEndComment" -> xmlTextWriterEndComment(w)
CallSingle(fn, w, arg, ok) ==
  IF ~ok THEN NativeError(w)
  ELSE CASE fn = "xmlTextWriterStartElement" -> xmlTextWriterStartElement(w, arg)
         [] fn = "xmlTextWriterWriteString" -> xmlTextWriterWriteString(w, arg)
         [] fn = "xmlTextWriterWriteRaw" -> xmlTextWriterWriteRaw(w, arg)
         [] fn = "xmlTextWriterStartAttribute" -> xmlTextWriterStartAttribute(w, arg)
         [] fn = "xmlTextWriterWriteComment" -> xmlTextWriterWriteComment(w, arg)
         [] fn = "xmlTextWriterSetIndentString" -> xmlTextWriterSetIndentString(w, arg)

\* invoke_void_arg_function(self, fn)
invoke_void_arg_function(r, w, snk, fn, ok) ==
  LET n == CallVoid(fn, w, ok)
  IN Done(BoolOf(n.ret), n.ret, <<>>, r, n.w, snk)

\* invoke_single_arg_function(self, fn, value)
invoke_single_arg_function(r, w, snk, fn, value, ok) ==
  LET e == encodeStrings(r.encoding, <<value>>)
      n == CallSingle(fn, w, e.out[1], ok)
  IN IF e.raised # "none" THEN Threw(e.raised, "none", 0, r, w, snk)
     ELSE Done(BoolOf(n.ret), n.ret, e.out, r, n.w, snk)

\* rxml_writer_start_element(self, name), rxml_writer_end_element(self)
rxml_writer_start_element(r, w, snk, name, ok) ==
  invoke_single_arg_function(r, w, snk, "xmlTextWriterStartElement", name, ok)
rxml_writer_end_element(r, w, snk, ok) ==
  invoke_void_arg_function(r, w, snk, "xmlTextWriterEndElement", ok)

\* rxml_writer_write_element going on to end_element whatever start_element
\* returned.
rxml_writer_write_element_unchecked(r, w, snk, name, content, ok, ok2) ==
  IF content = Qnil
  THEN LET a == rxml_writer_start_element(r, w, snk, name, ok)
       IN IF a.ret.t = "raise" THEN a
          ELSE rxml_writer_end_element(a.rwo, a.w, a.sink, ok2)
  ELSE LET e == encodeStrings(r.encoding, <<name, content>>)
           n == IF ok THEN xmlTextWriterWriteElement(w, e.out[1], e.out[2]) ELSE NativeError(w)
       IN IF e.raised # "none" THEN Threw(e.raised, "none", 0, r, w, snk)
          ELSE Done(BoolOf(n.ret), n.ret, e.out, r, n.w, snk)

\* rxml_writer_write_element(argc, argv, self): with no content, start_element
\* then end_element; with content, one native call.
rxml_writer_write_element(r, w, snk, name, content, ok, ok2) ==
  IF content = Qnil
  THEN LET a == rxml_writer_start_element(r, w, snk, name, ok)
       IN IF a.ret = Qfalse \/ a.ret.t = "raise" THEN a
          ELSE rxml_writer_end_element(a.rwo, a.w, a.sink, ok2)
  ELSE LET e == encodeStrings(r.encoding, <<name, content>>)
           n == IF ok THEN xmlTextWriterWriteElement(w, e.out[1], e.out[2]) ELSE NativeError(w)
       IN IF e.raised # "none" THEN Threw(e.raised, "none", 0, r, w, snk)
          ELSE Done(BoolOf(n.ret), n.ret, e.out, r, n.w, snk)

\* rxml_writer_write_string(self, content)
rxml_writer_write_string(r, w, snk, content, ok) ==
  invoke_single_arg_function(r, w, snk, "xmlTextWriterWriteString", content, ok)

\* rxml_writer_start_attribute(self, name), rxml_writer_end_attribute(self)
rxml_writer_start_attribute(r, w, snk, name) ==
  invoke_single_arg_function(r, w, snk, "xmlTextWriterStartAttribute", name, TRUE)
rxml_writer_end_attribute(r, w, snk) ==
  invoke_void_arg_function(r, w, snk, "xmlTextWriterEndAttribute", TRUE)

\* rxml_writer_write_attribute(self, name, content): one native call, made
\* with NULL for a nil content.
rxml_writer_write_attribute(r, w, snk, name, content) ==
  LET e == encodeStrings(r.encoding, <<name, content>>)
      n == xmlTextWriterWriteAttribute(w, e.out[1], e.out[2])
  IN IF e.raised # "none" THEN Threw(e.raised, "none", 0, r, w, snk)
     ELSE Done(BoolOf(n.ret), n.ret, e.out, r, n.w, snk)

\* rxml_writer_start_comment(self), rxml_writer_end_comment(self)
rxml_writer_start_comment(r, w, snk) ==
  invoke_void_arg_function(r, w, snk, "xmlTextWriterStartComment", TRUE)
rxml_writer_end_comment(r, w, snk) ==
  invoke_void_arg_function(r, w, snk, "xmlTextWriterEndComment", TRUE)

\* rxml_writer_write_comment(self, content)
rxml_writer_write_comment(r, w, snk, content) ==
  invoke_single_arg_function(r, w, snk, "xmlTextWriterWriteComment", content, TRUE)

\* rxml_writer_end_document(self): xmlTextWriterEndDocument through
\* invoke_void_arg_function; the native call flushes what it wrote.
rxml_writer_end_document(r, w, snk, ok) ==
  LET a == invoke_void_arg_function(r, w, snk, "xmlTextWriterEndDocument", ok)
  IN IF a.nret = -1 THEN a
     ELSE WithCallbacks([a EXCEPT !.w = xmlTextWriterFlush(a.w).w,
                                  !.sink = snk \o Delivered(r, a.w.pending)],
                        r, a.w.pending)

\* rxml_writer_set_indent(self, indentation)
rxml_writer_set_indent(r, w, snk, indentation, ok) ==
  LET n == IF ok THEN xmlTextWriterSetIndent(w, RTEST(indentation)) ELSE NativeError(w)
  IN Done(BoolOf(n.ret), n.ret, <<>>, r, n.w, snk)

\* rxml_writer_set_indent_string(self, indentation)
rxml_writer_set_indent_string(r, w, snk, indentation) ==
  invoke_single_arg_function(r, w, snk, "xmlTextWriterSetIndentString", indentation, TRUE)

\* rxml_writer_set_quote_char(self, quotechar): StringValueCStr on the argument
\* as it is (TypeError for what is no string, ArgumentError for a zero byte),
\* then its first byte to the native call; args holds that byte.
rxml_writer_set_quote_char(r, w, snk, quotechar) ==
  IF ~IsString(quotechar) THEN Threw("TypeError", "none", 0, r, w, snk)
  ELSE IF HasNul(quotechar) THEN Threw("ArgumentError", "none", 0, r, w, snk)
  ELSE LET c == IF quotechar.v = <<>> THEN 0 ELSE quotechar.v[1]
           n == xmlTextWriterSetQuoteChar(w, c)
       IN Done(BoolOf(n.ret), n.ret, <<CPtr(<<c>>)>>, r, n.w, snk)

\* The options hash of start_document: the :encoding entry, an XML::Encoding
\* constant (UTF_8 is 1, ISO_8859_1 is 10), and the :standalone entry (1 for
\* true, 2 for false); 0 is an entry that is absent or nil.
RHash(encoding, standalone) == [t |-> "hash", v |-> <<encoding, standalone>>, enc |-> "none"]
\* An options hash whose :encoding entry is a string, which NUM2INT refuses.
RHashText(standalone) == [t |-> "hash", v |-> <<0, standalone>>, enc |-> "str"]
OptionVals == {Qnil, RInt(7), RHash(0, 0), RHash(1, 1), RHash(10, 2), RHashText(0)}

\* xmlGetCharEncodingName(NUM2INT(encoding))
xmlGetCharEncodingName(encoding) ==
  CASE encoding = 1 -> "UTF-8"
    [] encoding = 10 -> "ISO-8859-1"
    [] OTHER -> "NULL"

\* rxml_figure_encoding(xencoding): the Ruby encoding of that name, UTF-8 for
\* NULL.
rxml_figure_encoding(xencoding) == IF xencoding = "NULL" THEN "UTF-8" ELSE xencoding

\* rxml_writer_start_document with the session's encoding never assigned.
rxml_writer_start_document_unset(r, w, snk, options, ok) ==
  IF options # Qnil /\ options.t # "hash" THEN Threw("TypeError", "none", 0, r, w, snk)
  ELSE IF options # Qnil /\ options.enc = "str" THEN Threw("TypeError", "none", 0, r, w, snk)
  ELSE
    LET encoding == IF options = Qnil THEN 0 ELSE options.v[1]
        standalone == IF options = Qnil THEN 0 ELSE options.v[2]
        xencoding == IF encoding = 0 THEN "NULL" ELSE xmlGetCharEncodingName(encoding)
        xstandalone == IF standalone = 0 THEN "NULL"
                       ELSE IF standalone = 1 THEN "yes" ELSE "no"
        n == IF ok THEN xmlTextWriterStartDocument(w, xencoding, xstandalone)
             ELSE NativeError(w)
    IN Done(BoolOf(n.ret), n.ret, <<>>, r, n.w, snk)

\* rxml_writer_start_document(argc, argv, self)
rxml_writer_start_document(r, w, snk, options, ok) ==
  IF options # Qnil /\ options.t # "hash" THEN Threw("TypeError", "none", 0, r, w, snk)
  ELSE IF options # Qnil /\ options.enc = "str" THEN Threw("TypeError", "none", 0, r, w, snk)
  ELSE
    LET encoding == IF options = Qnil THEN 0 ELSE options.v[1]
        standalone == IF options = Qnil THEN 0 ELSE options.v[2]
        xencoding == IF encoding = 0 THEN "NULL" ELSE xmlGetCharEncodingName(encoding)
        xstandalone == IF standalone = 0 THEN "NULL"
                       ELSE IF standalone = 1 THEN "yes" ELSE "no"
        r1 == [r EXCEPT !.encoding = rxml_figure_encoding(xencoding)]
        n == IF ok THEN xmlTextWriterStartDocument(w, xencoding, xstandalone)
             ELSE NativeError(w)
    IN Done(BoolOf(n.ret), n.ret, <<>>, r1, n.w, snk)

\* rb_external_str_new_with_enc(buffer->content, buffer->use, encoding)
rb_external_str_new_with_enc(bytes, encoding) == RStrEnc(bytes, encoding)

\* rxml_writer_flush with the buffer released, and forgotten, where
\* xmlBufferEmpty belongs.
rxml_writer_flush_releases(r, w, snk, empty, ok) ==
  LET n == IF ok THEN xmlTextWriterFlush(w) ELSE NativeError(w)
      got == snk \o Delivered(r, w.pending)
  IN IF n.ret = -1 THEN Threw(rxml_raise("xmlTextWriterFlush").kind,
                              rxml_raise("xmlTextWriterFlush").err, -1, r, w, snk)
     ELSE IF r.buffer # "NULL"
     THEN IF empty = Qnil \/ RTEST(empty)
          THEN Done(rb_external_str_new_with_enc(got, r.encoding), n.ret, <<>>,
                    [r EXCEPT !.buffer = "NULL"], n.w, <<>>)
          ELSE Done(rb_external_str_new_with_enc(got, r.encoding), n.ret, <<>>, r, n.w, got)
     ELSE WithCallbacks(Done(RInt(n.ret), n.ret, <<>>, r, n.w, got), r, w.pending)

\* rxml_writer_flush going on with the -1 of xmlTextWriterFlush instead of
\* raising.
rxml_writer_flush_unchecked(r, w, snk, empty, ok) ==
  LET n == IF ok THEN xmlTextWriterFlush(w) ELSE NativeError(w)
      got == IF ok THEN snk \o Delivered(r, w.pending) ELSE snk
  IN IF r.buffer # "NULL"
     THEN Done(rb_external_str_new_with_enc(got, r.encoding), n.ret, <<>>, r, n.w,
               IF empty = Qnil \/ RTEST(empty) THEN <<>> ELSE got)
     ELSE Done(RInt(n.ret), n.ret, <<>>, r, n.w, got)

\* rxml_writer_flush with xmlBufferEmpty never called.
rxml_writer_flush_keeps(r, w, snk, empty, ok) ==
  LET n == IF ok THEN xmlTextWriterFlush(w) ELSE NativeError(w)
      got == snk \o Delivered(r, w.pending)
  IN IF n.ret = -1 THEN Threw(rxml_raise("xmlTextWriterFlush").kind,
                              rxml_raise("xmlTextWriterFlush").err, -1, r, w, snk)
     ELSE IF r.buffer # "NULL"
     THEN Done(rb_external_str_new_with_enc(got, r.encoding), n.ret, <<>>, r, n.w, got)
     ELSE WithCallbacks(Done(RInt(n.ret), n.ret, <<>>, r, n.w, got), r, w.pending)

\* rxml_writer_flush(argc, argv, self)
rxml_writer_flush(r, w, snk, empty, ok) ==
  LET n == IF ok THEN xmlTextWriterFlush(w) ELSE NativeError(w)
      got == snk \o Delivered(r, w.pending)
  IN IF n.ret = -1 THEN Threw(rxml_raise("xmlTextWriterFlush").kind,
                              rxml_raise("xmlTextWriterFlush").err, -1, r, w, snk)
     ELSE IF r.buffer # "NULL"
     THEN Done(rb_external_str_new_with_enc(got, r.encoding), n.ret, <<>>, r, n.w,
               IF empty = Qnil \/ RTEST(empty) THEN <<>> ELSE got)
     ELSE WithCallbacks(Done(RInt(n.ret), n.ret, <<>>, r, n.w, got), r, w.pending)

\* rxml_writer_result reading the buffer without flushing the writer first.
rxml_writer_result_unflushed(r, w, snk, ok) ==
  LET ret == CASE r.output_type = "RXMLW_OUTPUT_DOC" -> r.output
               [] r.output_type = "RXMLW_OUTPUT_STRING" ->
                    rb_external_str_new_with_enc(snk, r.encoding)
               [] OTHER -> Qnil
  IN Done(ret, 0, <<>>, r, w, snk)

\* rxml_writer_result(self)
rxml_writer_result(r, w, snk, ok) ==
  LET n == IF ok THEN xmlTextWriterFlush(w) ELSE NativeError(w)
      got == snk \o Delivered(r, w.pending)
      ret == CASE r.output_type = "RXMLW_OUTPUT_DOC" -> r.output
               [] r.output_type = "RXMLW_OUTPUT_STRING" ->
                    rb_external_str_new_with_enc(got, r.encoding)
               [] OTHER -> Qnil
  IN IF n.ret = -1 THEN Threw(rxml_raise("xmlTextWriterFlush").kind,
                              rxml_raise("xmlTextWriterFlush").err, -1, r, w, snk)
     ELSE WithCallbacks(Done(ret, n.ret, <<>>, r, n.w, got), r, w.pending)

\* rxml_writer_free(rwo): the closed flag is set, xmlFreeTextWriter flushes
\* what the native writer still buffers and releases the writer with its
\* output buffer, xfree releases the session record.
rxml_writer_free_open(r, w, snk) ==
  [rwo |-> [r EXCEPT !.st = "freed"],
   w |-> [w EXCEPT !.st = "freed", !.pending = <<>>],
   sink |-> snk \o Delivered(r, w.pending),
   cb |-> Callbacks(r, w.pending),
   released |-> {"writer", "out", "rwo"}]

rxml_writer_free(r, w, snk) ==
  LET closing == [r EXCEPT !.closed = TRUE]
  IN [rwo |-> [closing EXCEPT !.st = "freed"],
      w |-> [w EXCEPT !.st = "freed", !.pending = <<>>],
      sink |-> snk \o Delivered(closing, w.pending),
      cb |-> Callbacks(closing, w.pending),
      released |-> {"writer", "out", "rwo"}]

\* -------------------------------------------------------- session actions
\* The caller holds the session.
Held == obj.st = "live" /\ obj.rooted
\* Output is produced only below the bound on the bytes written.
Room == Len(sink) + Len(xw.pending) < MaxOut

NameVals == {RStr(StrA), Qnil}
ContentVals == {RStr(<<60>>), Qnil}

\* One method call on the session, o its outcome.  The native layer is made
\* to report an internal error (ok FALSE) in the calls that have no error of
\* their own to report; the others fail on a nil name or content, on an end
\* with nothing open, on a document start inside an element.
Invoke(op, o) ==
  /\ rwo' = o.rwo
  /\ xw' = o.w
  /\ sink' = o.sink
  /\ wlast' = [op |-> op, ret |-> o.ret, err |-> o.err, nret |-> o.nret, args |-> o.args,
               cb |-> o.cb]
  /\ UNCHANGED <<obj, heap>>
  /\ UNCHANGED dtdVars

WriterStartDocument(options) ==
  /\ Held /\ Room
  /\ Invoke("start_document", rxml_writer_start_document(rwo, xw, sink, options, TRUE))

WriterEndDocument(ok) ==
  /\ Held /\ Room
  /\ Invoke("end_document", rxml_writer_end_document(rwo, xw, sink, ok))

WriterStartElement(name) ==
  /\ Held /\ Room
  /\ Len(xw.stack) < MaxDepth
  /\ Invoke("start_element", rxml_writer_start_element(rwo, xw, sink, name, TRUE))

WriterEndElement ==
  /\ Held
  /\ Invoke("end_element", rxml_writer_end_element(rwo, xw, sink, TRUE))

WriterFullEndElement ==
  /\ Held
  /\ Invoke("full_end_element",
            invoke_void_arg_function(rwo, xw, sink, "xmlTextWriterFullEndElement", TRUE))

WriterWriteString(content, ok) ==
  /\ Held /\ Room
  /\ Invoke("write_string", rxml_writer_write_string(rwo, xw, sink, content, ok))

WriterWriteRaw(content) ==
  /\ Held /\ Room
  /\ Invoke("write_raw",
            invoke_single_arg_function(rwo, xw, sink, "xmlTextWriterWriteRaw", content, TRUE))

WriterWriteElement(name, content, ok, ok2) ==
  /\ Held /\ Room
  /\ Len(xw.stack) < MaxDepth
  /\ Invoke("write_element", rxml_writer_write_element(rwo, xw, sink, name, content, ok, ok2))

WriterSetIndent(indentation, ok) ==
  /\ Held
  /\ Invoke("set_indent", rxml_writer_set_indent(rwo, xw, sink, indentation, ok))

WriterFlush(empty, ok) ==
  /\ Held
  /\ Invoke("flush", rxml_writer_flush(rwo, xw, sink, empty, ok))

WriterResult(ok) ==
  /\ Held
  /\ Invoke("result", rxml_writer_result(rwo, xw, sink, ok))

\* The caller drops its last reference to the session.
WriterDrop ==
  /\ Held
  /\ obj' = [obj EXCEPT !.rooted = FALSE]
  /\ wlast' = NoWriterOp
  /\ UNCHANGED <<rwo, heap, xw, sink>>
  /\ UNCHANGED dtdVars

\* The collector sweeps the session: its release hook rxml_writer_free runs.
WriterCollect ==
  /\ obj.st = "live"
  /\ ~obj.rooted
  /\ LET f == rxml_writer_free(rwo, xw, sink)
     IN /\ rwo' = f.rwo
        /\ xw' = f.w
        /\ sink' = f.sink
        /\ heap' = heap \ f.released
        /\ wlast' = [NoWriterOp EXCEPT !.op = "free", !.cb = f.cb]
  /\ obj' = [obj EXCEPT !.st = "collected"]
  /\ UNCHANGED dtdVars

WriterNext ==
  \/ WriterCtorNext
  \/ \E o \in OptionVals : WriterStartDocument(o)
  \/ \E ok \in BOOLEAN : WriterEndDocument(ok)
  \/ \E n \in NameVals : WriterStartElement(n)
  \/ WriterEndElement
  \/ WriterFullEndElement
  \/ \E c \in ContentVals, ok \in BOOLEAN : WriterWriteString(c, ok)
  \/ \E c \in ContentVals : WriterWriteRaw(c)
  \/ \E n \in NameVals, c \in ContentVals, ok \in BOOLEAN, ok2 \in BOOLEAN :
       WriterWriteElement(n, c, ok, ok2)
  \/ \E i \in {Qtrue, Qfalse}, ok \in BOOLEAN : WriterSetIndent(i, ok)
  \/ \E e \in {Qnil, Qtrue, Qfalse}, ok \in BOOLEAN : WriterFlush(e, ok)
  \/ \E ok \in BOOLEAN : WriterResult(ok)
  \/ WriterDrop
  \/ WriterCollect

SpecWriter == Init /\ [][WriterNext]_vars

\* Attributes and comments, with their shortcuts, on a session that is never
\* flushed: the output stays in the native writer, at most MaxText bytes of it
\* before a call.
TextRoom == Len(xw.pending) < MaxText

WriterStartAttribute(name) ==
  /\ Held /\ TextRoom
  /\ Invoke("start_attribute", rxml_writer_start_attribute(rwo, xw, sink, name))

WriterEndAttribute ==
  /\ Held
  /\ Invoke("end_attribute", rxml_writer_end_attribute(rwo, xw, sink))

WriterWriteAttribute(name, content) ==
  /\ Held /\ TextRoom
  /\ Invoke("write_attribute", rxml_writer_write_attribute(rwo, xw, sink, name, content))

WriterStartComment ==
  /\ Held /\ TextRoom
  /\ Len(xw.stack) < MaxDepth
  /\ Invoke("start_comment", rxml_writer_start_comment(rwo, xw, sink))

WriterEndComment ==
  /\ Held
  /\ Invoke("end_comment", rxml_writer_end_comment(rwo, xw, sink))

WriterWriteComment(content) ==
  /\ Held /\ TextRoom
  /\ Len(xw.stack) < MaxDepth
  /\ Invoke("write_comment", rxml_writer_write_comment(rwo, xw, sink, content))

ShortcutNext ==
  \/ WriterCtorNext
  \/ \E n \in NameVals : WriterStartElement(n)
  \/ WriterEndElement
  \/ \E c \in ContentVals, ok \in BOOLEAN : WriterWriteString(c, ok)
  \/ \E n \in NameVals, c \in ContentVals, ok \in BOOLEAN, ok2 \in BOOLEAN :
       WriterWriteElement(n, c, ok, ok2)
  \/ \E n \in NameVals : WriterStartAttribute(n)
  \/ WriterEndAttribute
  \/ \E n \in NameVals, c \in ContentVals : WriterWriteAttribute(n, c)
  \/ WriterStartComment
  \/ WriterEndComment
  \/ \E c \in ContentVals : WriterWriteComment(c)

SpecShortcut == Init /\ [][ShortcutNext]_vars

\* Text arguments in the encodings a caller's strings come in: nil, an
\* apostrophe, e-acute in ISO-8859-1 and in UTF-8, a string holding a zero byte.
TextVals ==
  {Qnil, RStrEnc(<<39>>, "UTF-8"), RStrEnc(<<233>>, "ISO-8859-1"),
   RStrEnc(<<195, 169>>, "UTF-8"), RStrEnc(StrANulB, "UTF-8")}

WriterSetIndentString(indentation) ==
  /\ Held
  /\ Invoke("set_indent_string", rxml_writer_set_indent_string(rwo, xw, sink, indentation))

WriterSetQuoteChar(quotechar) ==
  /\ Held
  /\ Invoke("set_quote_char", rxml_writer_set_quote_char(rwo, xw, sink, quotechar))

\* Sessions written to with strings of several encodings, the session's own
\* encoding set by the constructor and by start_document.
TextNext ==
  \/ WriterCtorNext
  \/ \E o \in OptionVals : WriterStartDocument(o)
  \/ \E n \in NameVals : WriterStartElement(n)
  \/ \E t \in TextVals : WriterWriteString(t, TRUE)
  \/ \E n \in NameVals, t \in TextVals : WriterWriteAttribute(n, t)
  \/ \E t \in TextVals : WriterSetIndentString(t)
  \/ \E t \in TextVals : WriterSetQuoteChar(t)

SpecText == Init /\ [][TextNext]_vars

\* The constructors of the two adapters: XML::Dtd.new and XML::Writer.io,
\* .file, .string, .document.
CtorNext ==
  \/ \E argv \in Argvs, ok \in BOOLEAN : DtdNew(argv, ok)
  \/ WriterCtorNext

SpecCtor == Init /\ [][CtorNext]_vars

\* ------------------------------------------------------------------ claims
Constructed == last.op \in {"new", "initialize"}
LastDtd == xdtd[hdl[last.h].ptr]

\* C1: a collected handle whose release hook is rxml_dtd_free has released
\* its native DTD only if the DTD had neither an owning document nor a parent
\* node; a DTD with either one set is left alone by the collection.
C1_ReleaseOnlyWhenUnowned ==
  \A h \in Handles :
    (hdl[h].st = "collected" /\ hdl[h].dfree = "rxml_dtd_free" /\ hdl[h].ptr # NULL) =>
      LET x == xdtd[hdl[h].ptr]
      IN /\ x.st = "freed" => (x.doc = NULL /\ x.parent = NULL)
         /\ (x.doc # NULL \/ x.parent # NULL) => (x.st = "live" /\ x.freedBy = <<>>)

C1_Witness ==
  \E h \in Handles :
    /\ hdl[h].st = "collected"
    /\ hdl[h].dfree = "rxml_dtd_free"
    /\ hdl[h].ptr # NULL
    /\ xdtd[hdl[h].ptr].doc = NULL
    /\ xdtd[hdl[h].ptr].parent # NULL
    /\ xdtd[hdl[h].ptr].st = "live"

\* C2: the native DTD of a handle constructed with a document argument is
\* never released by the handle's collection: it is released at most once, by
\* the document's teardown, whichever of the two is collected first.
C2_DocOwnedReleasedOnceByDoc ==
  \A h \in Handles :
    hdl[h].ctor = "subset_doc" =>
      LET x == xdtd[hdl[h].ptr]
      IN /\ x.freedBy \in {<<>>, <<"doc">>}
         /\ x.st = "freed" <=> xdoc[x.doc].st = "freed"

C2_Witness ==
  \E h \in Handles :
    /\ hdl[h].ctor = "subset_doc"
    /\ hdl[h].st = "collected"
    /\ xdtd[hdl[h].ptr].freedBy = <<"doc">>

\* C3 (as claimed): whatever constructor mode built it, a native DTD with no
\* owning document and no parent is released when its handle is collected.
C3_UnownedReleasedAtCollection ==
  \A h \in Handles :
    (hdl[h].st = "collected" /\ hdl[h].ptr # NULL
       /\ xdtd[hdl[h].ptr].doc = NULL /\ xdtd[hdl[h].ptr].parent = NULL) =>
      xdtd[hdl[h].ptr].st = "freed"

\* C4: right after a successful 1- or 2-argument construction the native DTD
\* in the handle has no owning document (and sits in no document slot), and
\* the handle still has the release hook rxml_dtd_free.
C4_ParsedDtdOwnedByAdapter ==
  (Constructed /\ last.res = "ok" /\ last.first /\ Len(last.argv) \in {1, 2}) =>
    /\ LastDtd.st = "live"
    /\ LastDtd.doc = NULL
    /\ \A d \in Docs : hdl[last.h].ptr \notin {xdoc[d].extSubset, xdoc[d].intSubset}
    /\ hdl[last.h].dfree = "rxml_dtd_free"

C4_Witness ==
  /\ last.op = "new"
  /\ last.res = "ok"
  /\ Len(last.argv) = 2
  /\ hdl[last.h].dfree = "rxml_dtd_free"

\* C5 (as claimed): while the caller holds a DTD handle whose native DTD has
\* an owning document, that document's wrapper has not been collected.
C5_DocumentOutlivesHandle ==
  \A h \in Handles :
    (hdl[h].st = "live" /\ hdl[h].rooted /\ hdl[h].ptr # NULL
       /\ xdtd[hdl[h].ptr].doc # NULL) =>
      xdoc[xdtd[hdl[h].ptr].doc].st = "live"

\* C6: a non-nil document argument that is no Document raises TypeError, an
\* argument count outside 1..5 raises ArgumentError; either is raised before
\* any native call and leaves no native object in the handle.
C6_ArgumentErrorsBeforeNative ==
  Constructed =>
    /\ (Len(last.argv) \in 4..5 /\ Arg(last.argv, 4) # Qnil /\ Arg(last.argv, 4).t # "doc")
         => last.res = "TypeError"
    /\ Len(last.argv) \notin 1..5 => last.res = "ArgumentError"
    /\ last.res \in {"TypeError", "ArgumentError"} =>
         /\ last.calls = <<>>
         /\ last.first => hdl[last.h].ptr = NULL

C6_Witness ==
  /\ last.op = "new"
  /\ Len(last.argv) = 5
  /\ Arg(last.argv, 4) = RInt(7)
  /\ last.res = "TypeError"
  /\ hdl[last.h].ptr = NULL

\* C7: when the native creation or parse call of a constructor returns NULL,
\* the constructor raises the error that carries the diagnostic of the call
\* that failed, and the caller gets no DTD handle and no writer session; a
\* handle or session that is returned wraps a live native object.
DtdCreationCalls == {"xmlNewDtd", "xmlCreateIntSubset", "xmlParseDTD", "xmlIOParseDTD"}
WriterCreationCalls ==
  {"xmlOutputBufferCreateIO", "xmlNewTextWriter", "xmlNewTextWriterFilename",
   "xmlBufferCreate", "xmlNewTextWriterMemory", "xmlNewTextWriterDoc"}
C7_NativeFailureRaises ==
  /\ (last.op = "new" /\ last.calls # <<>>) =>
       /\ last.res \in {"ok", "XmlError"}
       /\ last.res = "ok" =>
            /\ hdl[last.h].rooted
            /\ hdl[last.h].ptr # NULL
            /\ LastDtd.st = "live"
       /\ last.res = "XmlError" =>
            /\ last.err \in DtdCreationCalls
            /\ last.err = last.calls[Len(last.calls)]
            /\ ~hdl[last.h].rooted
            /\ hdl[last.h].ptr = NULL
  /\ wlast.op \in WriterCtors =>
       /\ wlast.ret = Qtrue =>
            /\ wlast.nret = 0
            /\ obj.st = "live"
            /\ rwo.writer = "writer"
            /\ xw.st = "live"
       /\ (wlast.nret = -1 /\ wlast.args # <<>>) =>
            /\ wlast.ret = RaiseOf("XmlError")
            /\ wlast.err \in WriterCreationCalls
            /\ \E i \in 1..Len(wlast.args) : wlast.args[i] = wlast.err
            /\ obj.st = "none"
  /\ obj.st = "live" => (rwo.writer = "writer" /\ xw.st = "live")

C7_Witness ==
  /\ last.op = "new"
  /\ last.res = "XmlError"
  /\ last.err = "xmlParseDTD"
  /\ ~hdl[last.h].rooted
  /\ wlast.op = "string"
  /\ wlast.ret = RaiseOf("XmlError")
  /\ wlast.err = "xmlNewTextWriterMemory"
  /\ obj.st = "none"

\* C8: in the 3-5 argument form the internal flag alone picks the native
\* call: nil, false or omitted creates an external subset (in the document's
\* external-subset slot when a document is given), anything else an internal
\* subset (in the document's internal-subset slot).
C8_FlagSelectsSubset ==
  (Constructed /\ Len(last.argv) \in 3..5 /\ last.res # "TypeError") =>
    LET flag == Arg(last.argv, 5)
        doc == Arg(last.argv, 4)
        external == flag \in {Qnil, Qfalse}
        p == hdl[last.h].ptr
    IN /\ last.calls[1] = IF external THEN "xmlNewDtd" ELSE "xmlCreateIntSubset"
       /\ (last.res = "ok" /\ doc # Qnil) =>
            IF external
            THEN xdoc[doc.v[1]].extSubset = p /\ xdoc[doc.v[1]].intSubset # p
            ELSE xdoc[doc.v[1]].intSubset = p /\ xdoc[doc.v[1]].extSubset # p

C8_Witness ==
  /\ last.op = "new"
  /\ last.res = "ok"
  /\ Len(last.argv) = 5
  /\ Arg(last.argv, 5) = RInt(0)
  /\ Arg(last.argv, 4).t = "doc"
  /\ xdoc[Arg(last.argv, 4).v[1]].intSubset = hdl[last.h].ptr

\* C9 (as claimed): after a successful construction external_id and uri
\* return the external id and system id given (2-5 argument forms), and name
\* returns the name given (3-5 argument form, nil when none was given).
C9_AccessorsReturnInputs ==
  (Constructed /\ last.res = "ok" /\ Len(last.argv) >= 2) =>
    /\ rxml_dtd_external_id_get(LastDtd) = last.argv[1]
    /\ rxml_dtd_uri_get(LastDtd) = last.argv[2]
    /\ Len(last.argv) >= 3 => rxml_dtd_name_get(LastDtd) = last.argv[3]

\* C10: the session's sink is fixed by the constructor.  Each kind comes with
\* its own association (an IO object for the stream sink, the document wrapper
\* for the document sink, the xmlBuffer for the string sink, none for the file
\* sink), and no method call on the session changes the sink kind, the output
\* target or the presence of the buffer.
SinkShape ==
  obj.st = "live" =>
    /\ rwo.output_type = "RXMLW_OUTPUT_IO" <=> rwo.output.t = "io"
    /\ rwo.output_type = "RXMLW_OUTPUT_DOC" <=> rwo.output.t = "doc"
    /\ rwo.output_type = "RXMLW_OUTPUT_STRING" <=> rwo.buffer # "NULL"
    /\ rwo.output_type = "RXMLW_OUTPUT_NONE" <=> (rwo.output = Qnil /\ rwo.buffer = "NULL")
SinkKept ==
  (obj.st = "live" /\ obj'.st = "live") =>
    /\ rwo'.output_type = rwo.output_type
    /\ rwo'.output = rwo.output
    /\ rwo'.buffer = rwo.buffer
C10_SinkFixedByConstructor == []SinkShape /\ [][SinkKept]_vars

C10_Witness ==
  /\ obj.st = "live"
  /\ wlast.op = "flush"
  /\ rwo.output_type = "RXMLW_OUTPUT_STRING"
  /\ rwo.buffer = "buffer"
  /\ wlast.ret.v # <<>>
  /\ sink = <<>>

\* C11: every run of the stream sink's write callback with the closed flag set
\* returns 0 and does not invoke the IO object's write; every run with the flag
\* clear hands exactly the bytes it was given to the IO object stored by the
\* constructor, and returns their count.
C11_CallbackHonoursClosed ==
  \A i \in 1..Len(wlast.cb) :
    LET c == wlast.cb[i]
    IN /\ c.closed => (c.ret = 0 /\ ~c.invoked /\ c.written = <<>>)
       /\ ~c.closed =>
            /\ c.invoked
            /\ c.written = c.bytes
            /\ c.ret = Len(c.bytes)
            /\ c.to = rwo.output
            /\ c.to.t = "io"

C11_Witness ==
  /\ wlast.op = "free"
  /\ Len(wlast.cb) = 1
  /\ wlast.cb[1].closed
  /\ wlast.cb[1].bytes # <<>>
  /\ ~wlast.cb[1].invoked

\* C12: the closed flag is false from construction for as long as the native
\* writer is live and true once it has been released; a released writer is
\* never touched again: the session object is collected, no operation runs on
\* it, and neither the native writer, the session record nor the sink change.
C12_ClosedTimeline ==
  /\ xw.st = "live" => (rwo.st = "live" /\ ~rwo.closed /\ obj.st = "live")
  /\ xw.st = "freed" => (rwo.closed /\ rwo.st = "freed" /\ obj.st = "collected")

C12_ReleasedUntouched ==
  xw.st = "freed" => (xw' = xw /\ rwo' = rwo /\ sink' = sink /\ wlast' = wlast)

C12_ClosedFromRelease == []C12_ClosedTimeline /\ [][C12_ReleasedUntouched]_vars

C12_Witness ==
  /\ xw.st = "freed"
  /\ rwo.closed
  /\ wlast.op = "free"
  /\ sink # <<>>

\* The collector's sweep of the session: the step in which the release hook runs.
Collecting == obj.st = "live" /\ obj'.st = "collected"

StreamSink == rwo.output_type = "RXMLW_OUTPUT_IO"

\* C13 as stated: when a stream-sink session is collected, the output still
\* buffered in the native writer is forwarded to the IO object during release.
C13_ReleaseForwardsBuffered ==
  [][(Collecting /\ StreamSink) => sink' = sink \o xw.pending]_vars

\* C13: collecting a session runs the native release, which flushes; for a
\* stream sink the flush reaches the write callback with the closed flag already
\* set, so the IO object is not written to and the output still buffered is
\* discarded; for a file sink the buffered output is written during release.
C13_ReleaseStep ==
  Collecting =>
    /\ xw'.st = "freed"
    /\ xw'.pending = <<>>
    /\ wlast'.op = "free"
    /\ StreamSink =>
         /\ sink' = sink
         /\ Len(wlast'.cb) = 1
         /\ wlast'.cb[1].closed
         /\ wlast'.cb[1].bytes = xw.pending
         /\ ~wlast'.cb[1].invoked
    /\ rwo.output_type = "RXMLW_OUTPUT_NONE" => sink' = sink \o xw.pending

C13_ReleaseDropsBuffered == [][C13_ReleaseStep]_vars

C13_Witness ==
  /\ StreamSink
  /\ obj.st = "collected"
  /\ wlast.op = "free"
  /\ wlast.cb[1].bytes # <<>>
  /\ wlast.cb[1].written = <<>>
  /\ sink = <<>>

\* What a call leaves behind that a caller can observe: the value returned, the
\* native writer and the output target.
Observed(o) == [ret |-> o.ret, w |-> o.w, sink |-> o.sink]

\* The three steps a shortcut stands for, made one after the other from the
\* outcome a of the start step: the text write only when content is supplied,
\* then the end step; a step that reports failure ends the sequence.
ElementSteps(name, content) ==
  LET a == rxml_writer_start_element(rwo, xw, sink, name, TRUE)
      b == IF content = Qnil THEN a ELSE rxml_writer_write_string(a.rwo, a.w, a.sink, content, TRUE)
  IN IF a.ret # Qtrue THEN a
     ELSE IF b.ret # Qtrue THEN b
     ELSE rxml_writer_end_element(b.rwo, b.w, b.sink, TRUE)

AttributeSteps(name, content) ==
  LET a == rxml_writer_start_attribute(rwo, xw, sink, name)
      b == IF content = Qnil THEN a ELSE rxml_writer_write_string(a.rwo, a.w, a.sink, content, TRUE)
  IN IF a.ret # Qtrue THEN a
     ELSE IF b.ret # Qtrue THEN b
     ELSE rxml_writer_end_attribute(b.rwo, b.w, b.sink)

CommentSteps(content) ==
  LET a == rxml_writer_start_comment(rwo, xw, sink)
      b == IF content = Qnil THEN a ELSE rxml_writer_write_string(a.rwo, a.w, a.sink, content, TRUE)
  IN IF a.ret # Qtrue THEN a
     ELSE IF b.ret # Qtrue THEN b
     ELSE rxml_writer_end_comment(b.rwo, b.w, b.sink)

\* C14: from every state of a held session, each shortcut (write_element,
\* write_attribute, write_comment) returns what its start step, a text write
\* only if content is supplied, and its end step return, and leaves the same
\* output and writer state; a failed start step is all that happens.
C14_ShortcutsDecompose ==
  Held =>
    \A name \in NameVals, content \in ContentVals :
      /\ Observed(rxml_writer_write_element(rwo, xw, sink, name, content, TRUE, TRUE))
           = Observed(ElementSteps(name, content))
      /\ Observed(rxml_writer_write_attribute(rwo, xw, sink, name, content))
           = Observed(AttributeSteps(name, content))
      /\ Observed(rxml_writer_write_comment(rwo, xw, sink, content))
           = Observed(CommentSteps(content))

\* The names tried: a valid one, nil, the empty string, one holding a zero byte.
ElementNames == NameVals \cup {RStr(<<>>), RStr(StrANulB)}

\* start_element(name) immediately followed by end_element(), as two calls: the
\* second is made whatever the first returned (an exception raised by the first
\* is all that happens).
StartThenEnd(name, ok, ok2) ==
  LET a == rxml_writer_start_element(rwo, xw, sink, name, ok)
  IN IF a.ret.t = "raise" THEN a
     ELSE rxml_writer_end_element(a.rwo, a.w, a.sink, ok2)

\* The same two calls, the second made only if the first returned true.
StartThenEndIfStarted(name, ok, ok2) ==
  LET a == rxml_writer_start_element(rwo, xw, sink, name, ok)
  IN IF a.ret # Qtrue THEN a
     ELSE rxml_writer_end_element(a.rwo, a.w, a.sink, ok2)

\* C15 as stated: from every session state write_element(name) with no
\* content returns the same value and leaves the same output and writer state
\* as start_element(name) immediately followed by end_element().
C15_WriteElementIsStartEnd ==
  Held =>
    \A name \in ElementNames, ok \in BOOLEAN, ok2 \in BOOLEAN :
      Observed(rxml_writer_write_element(rwo, xw, sink, name, Qnil, ok, ok2))
        = Observed(StartThenEnd(name, ok, ok2))

\* C15: from every session state write_element(name) with no content returns
\* the same value and leaves the same output and writer state as
\* start_element(name) followed, only if it returned true, by end_element();
\* when start_element reports failure write_element returns false at once.
C15_WriteElementIsStartEndIfStarted ==
  Held =>
    \A name \in ElementNames, ok \in BOOLEAN, ok2 \in BOOLEAN :
      Observed(rxml_writer_write_element(rwo, xw, sink, name, Qnil, ok, ok2))
        = Observed(StartThenEndIfStarted(name, ok, ok2))

C15_Witness ==
  /\ wlast.op = "write_element"
  /\ wlast.ret = Qtrue
  /\ wlast.args = <<>>
  /\ Len(xw.stack) = 1
  /\ Top(xw).state = "TEXT"

\* The flags flush is called with: omitted (nil), nil, true, false, and 0, which
\* is true in Ruby.
EmptyFlags == {Qnil, Qtrue, Qfalse, RInt(0)}

\* C16: on a string sink a flush that succeeds returns the buffer's text, what
\* the native writer still held included; it empties the buffer exactly when
\* the flag is omitted, nil or true, and a second flush then returns the empty
\* string; with a false flag the buffer is left as it is and a second flush
\* returns the same text. On every other sink flush returns the number of bytes
\* flushed.
C16_FlushReturns ==
  Held =>
    \A empty \in EmptyFlags, again \in EmptyFlags :
      LET text == sink \o xw.pending
          first == rxml_writer_flush(rwo, xw, sink, empty, TRUE)
          second == rxml_writer_flush(first.rwo, first.w, first.sink, again, TRUE)
      IN IF rwo.output_type = "RXMLW_OUTPUT_STRING"
         THEN /\ first.ret = RStrEnc(text, rwo.encoding)
              /\ first.w.pending = <<>>
              /\ (empty # Qfalse) => (first.sink = <<>> /\ second.ret = RStrEnc(<<>>, rwo.encoding))
              /\ (empty = Qfalse) => (first.sink = text /\ second.ret = first.ret)
         ELSE /\ first.ret = RInt(Len(xw.pending))
              /\ second.ret = RInt(0)

C16_Witness ==
  /\ wlast.op = "flush"
  /\ rwo.output_type = "RXMLW_OUTPUT_STRING"
  /\ wlast.ret.t = "str"
  /\ wlast.ret.v # <<>>
  /\ sink = <<>>
  /\ xw.pending = <<>>

\* s ends with t.
EndsWith(s, t) == Len(t) <= Len(s) /\ SubSeq(s, Len(s) - Len(t) + 1, Len(s)) = t

\* C17 as stated, for the string sink: result returns the full text of the
\* session whatever flushes came before, so a result called right after a flush
\* returns a text that holds what that flush returned.
C17_ResultReturnsWholeSession ==
  (Held /\ rwo.output_type = "RXMLW_OUTPUT_STRING") =>
    \A empty \in EmptyFlags :
      LET first == rxml_writer_flush(rwo, xw, sink, empty, TRUE)
          res == rxml_writer_result(first.rwo, first.w, first.sink, TRUE)
      IN res.ret.t = "str" /\ EndsWith(res.ret.v, first.ret.v)

\* C17: a result that succeeds flushes the native writer and returns the
\* Document stored at construction for a document sink, nil for a stream or a
\* file sink, and for a string sink the text the accumulation buffer holds
\* after the flush: what was written since the last flush that emptied the
\* buffer. The buffer is left as it is: after an emptying flush, result returns
\* the empty string.
C17_ResultReturnsBuffer ==
  Held =>
    LET res == rxml_writer_result(rwo, xw, sink, TRUE)
        emptied == rxml_writer_flush(rwo, xw, sink, Qnil, TRUE)
        after == rxml_writer_result(emptied.rwo, emptied.w, emptied.sink, TRUE)
    IN /\ res.w.pending = <<>>
       /\ res.sink = sink \o Delivered(rwo, xw.pending)
       /\ rwo.output_type = "RXMLW_OUTPUT_DOC" => (res.ret = rwo.output /\ res.ret.t = "doc")
       /\ rwo.output_type = "RXMLW_OUTPUT_STRING" =>
            /\ res.ret = RStrEnc(sink \o xw.pending, rwo.encoding)
            /\ after.ret = RStrEnc(<<>>, rwo.encoding)
       /\ rwo.output_type \in {"RXMLW_OUTPUT_IO", "RXMLW_OUTPUT_NONE"} => res.ret = Qnil

C17_Witness ==
  /\ wlast.op = "result"
  /\ rwo.output_type = "RXMLW_OUTPUT_STRING"
  /\ wlast.ret.t = "str"
  /\ wlast.ret.v # <<>>
  /\ sink = wlast.ret.v
  /\ xw.pending = <<>>

\* The start, write, end and set operations of a session.
BoolOps ==
  {"start_document", "end_document", "start_element", "end_element", "full_end_element",
   "write_string", "write_raw", "write_element", "set_indent",
   "start_attribute", "end_attribute", "write_attribute",
   "start_comment", "end_comment", "write_comment"}

\* C18: a start, write, end or set operation that made its native call returns
\* true when the call (the last one made, for write_element without content)
\* returned something other than -1 and false when it returned -1.
C18_BooleanFromNativeInt ==
  (wlast.op \in BoolOps /\ wlast.ret.t # "raise") =>
    /\ wlast.ret \in {Qtrue, Qfalse}
    /\ wlast.ret = Qtrue <=> wlast.nret # -1
    /\ wlast.ret = Qfalse <=> wlast.nret = -1

C18_Witness ==
  /\ wlast.op = "set_indent"
  /\ wlast.nret = 0
  /\ wlast.ret = Qtrue
  /\ xw.indent

\* C19 as stated: an operation whose native call reports failure, flush and
\* result included, raises nothing and returns false.
C19_FailureIsAlwaysFalse ==
  (wlast.op \in BoolOps \cup {"flush", "result"} /\ wlast.nret = -1) =>
    (wlast.ret.t # "raise" /\ wlast.ret = Qfalse)

\* C19: a start, write, end or set operation whose native call reports failure
\* raises nothing and returns false; flush and result raise when the native
\* flush reports failure, and leave the session as it was.
C19_FailureOutcome ==
  /\ (wlast.op \in BoolOps /\ wlast.nret = -1) => (wlast.ret = Qfalse /\ wlast.err = "none")
  /\ (wlast.op \in BoolOps /\ wlast.ret.t = "raise") => wlast.nret # -1
  /\ (wlast.op \in {"flush", "result"} /\ wlast.nret = -1) =>
        (wlast.ret.t = "raise" /\ wlast.err = "xmlTextWriterFlush")
  /\ (wlast.op \in {"flush", "result"} /\ wlast.nret # -1) => wlast.ret.t # "raise"

C19_FlushAndResultRaise ==
  []C19_FailureOutcome
    /\ [][(wlast'.op \in {"flush", "result"} /\ wlast'.nret = -1) =>
            (xw' = xw /\ sink' = sink /\ rwo' = rwo)]_vars

C19_Witness ==
  /\ wlast.op = "flush"
  /\ wlast.nret = -1
  /\ wlast.ret.t = "raise"
  /\ xw.pending # <<>>

\* The bytes of a text argument in the session's current encoding: e-acute is
\* 195 169 in UTF-8 and 233 in ISO-8859-1; the other strings tried are ASCII.
InSessionEncoding(t) ==
  CASE t.v = <<233>> /\ t.enc = "ISO-8859-1" /\ rwo.encoding = "UTF-8" -> <<195, 169>>
    [] t.v = <<195, 169>> /\ t.enc = "UTF-8" /\ rwo.encoding = "ISO-8859-1" -> <<233>>
    [] OTHER -> t.v

\* What the native layer is to be handed for a text argument: the null marker
\* for nil, the C string of the transcoded text otherwise.
Marshalled(t) == IF t = Qnil THEN CNull ELSE CPtr(InSessionEncoding(t))

\* The text arguments StringValueCStr accepts.
CStrings == {t \in TextVals : t # Qnil /\ UpToNul(t.v) = t.v}

\* C20 as stated: every text argument of every operation, set_indent_string
\* and set_quote_char included, reaches the native call transcoded to the
\* session's current encoding, and nil reaches it as the null marker.
C20_AllTextTranscoded ==
  Held =>
    \A t \in CStrings \cup {Qnil} :
      LET i == rxml_writer_set_indent_string(rwo, xw, sink, t)
          q == rxml_writer_set_quote_char(rwo, xw, sink, t)
      IN /\ i.args = <<Marshalled(t)>>
         /\ q.ret.t # "raise"
         /\ t # Qnil => q.args = <<CPtr(<<Head(InSessionEncoding(t))>>)>>

\* C20: every text argument handed to encodeStrings (write_string,
\* set_indent_string, both arguments of write_attribute) reaches the native
\* call transcoded to the session's current encoding, nil as the null marker,
\* and a text holding a zero byte raises ArgumentError before any native call.
\* set_quote_char is the exception: it hands over the first byte of its
\* argument as it came and raises TypeError for nil.
C20_TextTranscodedButQuoteChar ==
  Held =>
    /\ rwo.encoding \in {"UTF-8", "ISO-8859-1"}
    /\ \A t \in CStrings \cup {Qnil}, n \in CStrings \cup {Qnil} :
         LET s == rxml_writer_write_string(rwo, xw, sink, t, TRUE)
             i == rxml_writer_set_indent_string(rwo, xw, sink, t)
             a == rxml_writer_write_attribute(rwo, xw, sink, n, t)
             q == rxml_writer_set_quote_char(rwo, xw, sink, t)
         IN /\ s.args = <<Marshalled(t)>>
            /\ i.args = <<Marshalled(t)>>
            /\ t # Qnil => (i.ret = Qtrue /\ i.w.ichar = InSessionEncoding(t))
            /\ t = Qnil => (i.ret = Qfalse /\ i.w = xw)
            /\ a.args = <<Marshalled(n), Marshalled(t)>>
            /\ t = Qnil => (q.ret = RaiseOf("TypeError") /\ q.w = xw)
            /\ t # Qnil => (q.args = <<CPtr(<<Head(t.v)>>)>> /\ q.ret = BoolOf(q.nret))
    /\ \A t \in TextVals \ (CStrings \cup {Qnil}) :
         LET s == rxml_writer_write_string(rwo, xw, sink, t, TRUE)
             q == rxml_writer_set_quote_char(rwo, xw, sink, t)
         IN /\ s.ret = RaiseOf("ArgumentError") /\ s.w = xw
            /\ q.ret = RaiseOf("ArgumentError") /\ q.w = xw

C20_Witness ==
  /\ wlast.op = "set_indent_string"
  /\ wlast.ret = Qtrue
  /\ rwo.encoding = "ISO-8859-1"
  /\ xw.ichar = <<233>>
  /\ wlast.args = <<CPtr(<<233>>)>>

\* The native call fn was made in the last run of the DTD constructor.
DtdCalled(fn) == \E i \in 1..Len(last.calls) : last.calls[i] = fn

\* C22: when a constructor raises, what it allocated before the failure has
\* been released: the copy of the DTD text made by xmlStrdup has been given to
\* xmlFree, and no session record, output buffer or accumulation buffer of a
\* writer constructor is left allocated.
C22_FailedConstructorReleasesAll ==
  /\ (last.op = "new" /\ last.res = "XmlError" /\ DtdCalled("xmlStrdup")) => DtdCalled("xmlFree")
  /\ (wlast.op \in WriterCtors /\ wlast.ret.t = "raise") => heap = {}

\* The options start_document is tried with: none, what is no hash, a hash
\* without an encoding, with UTF_8, with ISO_8859_1, with a number that names
\* no encoding, with a string for the encoding.
StartOptions == OptionVals \cup {RHash(99, 0)}
\* The options that supply no encoding.
NoEncodingOptions == {Qnil, RHash(0, 0), RHash(0, 1), RHash(0, 2)}
\* The options the argument checks of start_document refuse.
RefusedOptions == {o \in StartOptions : o # Qnil /\ (o.t # "hash" \/ o.enc = "str")}

\* Every operation but a constructor and start_document leaves the session's
\* encoding alone.
EncodingKept ==
  (wlast'.op \notin WriterCtors \cup {"start_document"}) => rwo'.encoding = rwo.encoding

\* The encoding a constructor leaves: the IO object's, UTF-8 when it has none,
\* for a stream sink; UTF-8 for the other sinks.
EncodingAtConstruction ==
  (wlast.op \in WriterCtors /\ wlast.ret = Qtrue) =>
    rwo.encoding = (IF wlast.op = "io" /\ rwo.output.enc # "none" THEN rwo.output.enc
                    ELSE "UTF-8")

\* C21 as stated: the encoding is the constructor's, no operation other than
\* start_document changes it, and a start_document call that supplies no
\* encoding leaves it as it is.
C21_EncodingKeptWithoutOption ==
  /\ [](EncodingAtConstruction
        /\ (Held => \A o \in NoEncodingOptions :
              rxml_writer_start_document(rwo, xw, sink, o, TRUE).rwo.encoding = rwo.encoding))
  /\ [][EncodingKept]_vars

\* C21: the encoding is the constructor's and no operation other than
\* start_document changes it; every start_document call that gets past its
\* argument checks assigns it: the encoding the option names, and UTF-8 when
\* the call supplies no encoding or a number that names none.
EncodingAssigned ==
  Held =>
    \A o \in StartOptions, ok \in BOOLEAN :
      LET d == rxml_writer_start_document(rwo, xw, sink, o, ok)
      IN IF o \in RefusedOptions
         THEN d.ret.t = "raise" /\ d.rwo.encoding = rwo.encoding
         ELSE d.rwo.encoding =
                (CASE o # Qnil /\ o.v[1] = 1 -> "UTF-8"
                   [] o # Qnil /\ o.v[1] = 10 -> "ISO-8859-1"
                   [] OTHER -> "UTF-8")

C21_EncodingSetByEveryStartDocument ==
  [](EncodingAtConstruction /\ EncodingAssigned) /\ [][EncodingKept]_vars

C21_Witness ==
  /\ wlast.op = "start_document"
  /\ wlast.ret = Qtrue
  /\ rwo.output_type = "RXMLW_OUTPUT_IO"
  /\ rwo.output.enc = "ISO-8859-1"
  /\ rwo.encoding = "UTF-8"
  /\ xw.pending = <<63>>

\* C23: a start_document call that returns false or raises leaves the
\* session's encoding as it was before the call.
C23_FailedStartDocumentKeepsEncoding ==
  Held =>
    \A o \in StartOptions, ok \in BOOLEAN :
      LET d == rxml_writer_start_document(rwo, xw, sink, o, ok)
      IN d.ret # Qtrue => d.rwo.encoding = rwo.encoding

\* The part of C23 the code keeps: a start_document call that raises leaves
\* the encoding as it was.
RaisingStartDocumentKeepsEncoding ==
  Held =>
    \A o \in StartOptions, ok \in BOOLEAN :
      LET d == rxml_writer_start_document(rwo, xw, sink, o, ok)
      IN d.ret.t = "raise" => d.rwo.encoding = rwo.encoding

\* A start_document call has returned false and the encoding is no longer
\* the constructor's.
FalseStartDocumentChangedEncoding ==
  /\ wlast.op = "start_document"
  /\ wlast.ret = Qfalse
  /\ rwo.output_type = "RXMLW_OUTPUT_STRING"
  /\ rwo.encoding = "ISO-8859-1"

\* The handles an accessor can be invoked on: those the caller holds.
CallerHandles == {h \in Handles : hdl[h].st = "live" /\ hdl[h].rooted}

\* Every handle the caller holds has its native pointer set.
HeldHandleHasNative == \A h \in CallerHandles : hdl[h].ptr # NULL

\* A run of the constructor that replaces the native object of a handle has
\* released the object replaced, or left it to its owning document.
ReplacedNativeReleased ==
  \A h \in CallerHandles :
    (hdl[h].ptr # NULL /\ hdl'[h].ptr # hdl[h].ptr) =>
      \/ xdtd'[hdl[h].ptr].st = "freed"
      \/ xdtd'[hdl[h].ptr].doc # NULL

\* C24: every DTD handle an accessor can be invoked on holds a non-null
\* native DTD object, a handle that was allocated and whose constructor
\* raised or never ran included, and a second run of the constructor on a
\* handle never replaces a native object without releasing it.
C24_HandleHoldsOneNative ==
  []HeldHandleHasNative /\ [][ReplacedNativeReleased]_vars

\* An accessor has been invoked on a handle whose native pointer is unset.
AccessorOnUnsetHandle ==
  /\ last.op \in Accessors
  /\ last.res \in NullReadOutcomes
  /\ hdl[last.h].ptr = NULL

\* A second run of the constructor has left the first native object, which
\* no document owns, live and without a handle.
NativeOrphaned ==
  /\ last.op = "initialize"
  /\ last.res = "ok"
  /\ ~last.first
  /\ \E i \in DtdIds :
       /\ xdtd[i].st = "live"
       /\ xdtd[i].doc = NULL
       /\ \A h \in Handles : hdl[h].ptr # i

====
